---- MODULE Spec2Model ----
(***************************************************************************)
(* prisma-extension-emitter: the listener registry, the local dispatcher,  *)
(* the query extension, and the MQTT bridge (publisher client, subscriber  *)
(* client, topic table), for two server processes sharing one broker.      *)
(***************************************************************************)
EXTENDS Integers, Sequences, FiniteSets, TLC

(* ------------------------------------------------------------------ *)
(* Bounds of the model                                                 *)
(* ------------------------------------------------------------------ *)
MaxWrites == 2
MaxListeners == 3
MaxClients == 2
MaxRequests == 1
MaxDisconnects == 1
MaxTime == 6

(* ------------------------------------------------------------------ *)
(* Values                                                              *)
(* ------------------------------------------------------------------ *)
Procs == {"A", "B"}
Undefined == "undefined"

\* Keys of the registry: what callers register under and what dispatch looks up.
ModelKeys == {"User", "user", "order"}
Ops == {"create", "update", "updateMany", "upsert"}

\* utils.camelizeIt: lower-cases the first letter of the model name.
camelizeIt(model) ==
  IF model = "User" THEN "user" ELSE model

DefaultPrefix == <<"prisma", "events">>
CustomPrefix == <<"myapp", "events">>

\* mqttConfig.topicPrefix || 'prisma/events'
PrefixOf(config) ==
  IF config.topicPrefix = <<>> THEN DefaultPrefix ELSE config.topicPrefix

\* `${topicPrefix}/${model}/${operation}` as its sequence of topic levels
PublishTopic(config, model, operation) ==
  PrefixOf(config) \o <<model, operation>>

\* `${topicPrefix}/${model}/#`
SubscribeTopic(config, model) ==
  PrefixOf(config) \o <<model, "#">>

\* The broker's matching of a topic name against a topic filter (MQTT 3.1.1, 4.7).
RECURSIVE TopicMatches(_, _)
TopicMatches(filter, name) ==
  IF filter = <<>> THEN name = <<>>
  ELSE IF Head(filter) = "#" THEN TRUE
  ELSE IF name = <<>> THEN FALSE
  ELSE /\ (Head(filter) = "+" \/ Head(filter) = Head(name))
       /\ TopicMatches(Tail(filter), Tail(name))

(* ------------------------------------------------------------------ *)
(* Listener configurations.  A config is an object; the registry and   *)
(* the topic table hold references to it, so a config is an id here    *)
(* and CfgDef gives the fields of the object.                          *)
(* ------------------------------------------------------------------ *)
NoFilter == <<>>

\* A value is a string, Undefined, or an object named by a string: "Date(t1)" is a
\* Date object and OtherDate another Date object of the same instant.  Equality of
\* names is ===; Structure gives what a structural comparison sees.
OtherDate == "Date(t1)#2"
Structure(v) == IF v = OtherDate THEN "Date(t1)" ELSE v

Cond(kind, v, s, f) == [kind |-> kind, v |-> v, s |-> s, f |-> f]
CondTrue == Cond("true", Undefined, {}, "none")
CondVal(v) == Cond("val", v, {}, "none")
CondArr(s) == Cond("arr", Undefined, s, "none")
CondFn(f) == Cond("fn", Undefined, {}, f)

\* The predicate functions a filter may hold.
ApplyFn(f, val) ==
  CASE f = "isActive" -> IF val = "ACTIVE" THEN "true" ELSE "false"
    [] f = "throws" -> "throw"
    [] OTHER -> "false"

Config(where, data, allowRemote, remoteOnly, listener) ==
  [where |-> where, data |-> data, allowRemote |-> allowRemote,
   remoteOnly |-> remoteOnly, listener |-> listener]

\* listener: what the callback does when invoked:
\*   "ok" resolves, "throw" throws synchronously, "reject" returns a rejected promise.
CfgDef ==
  <<Config(NoFilter, NoFilter, TRUE, FALSE, "ok"),
    Config(NoFilter, <<<<"status", CondArr({"ACTIVE", "BLOCKED"})>>>>, FALSE, FALSE, "throw"),
    Config(NoFilter, NoFilter, TRUE, TRUE, "ok"),
    Config(<<<<"id", CondTrue>>>>, NoFilter, FALSE, FALSE, "reject"),
    Config(NoFilter, <<<<"status", CondFn("throws")>>>>, FALSE, FALSE, "ok"),
    Config(<<<<"id", CondArr({"1", "2"})>>>>, NoFilter, FALSE, FALSE, "ok"),
    Config(NoFilter, <<<<"status", CondVal("ACTIVE")>>>>, FALSE, FALSE, "ok"),
    Config(<<<<"id", CondArr({"1", Undefined})>>>>, <<<<"status", CondArr({"PENDING"})>>>>,
           FALSE, FALSE, "ok"),
    Config(<<<<"id", CondVal("Date(t1)")>>>>, NoFilter, FALSE, FALSE, "ok"),
    Config(NoFilter, <<<<"status", CondVal("ACTIVE")>>, <<"role", CondTrue>>>>,
           FALSE, FALSE, "ok"),
    Config(NoFilter, <<<<"role", CondTrue>>, <<"status", CondVal("ACTIVE")>>>>,
           FALSE, FALSE, "ok"),
    Config(NoFilter, <<<<"status", CondFn("throws")>>, <<"role", CondTrue>>>>,
           FALSE, FALSE, "ok"),
    Config(NoFilter, <<<<"role", CondTrue>>, <<"status", CondFn("throws")>>>>,
           FALSE, FALSE, "ok"),
    Config(<<<<"id", CondVal("1")>>>>, <<<<"status", CondFn("isActive")>>>>,
           FALSE, FALSE, "ok"),
    Config(NoFilter, <<<<"status", CondVal("ACTIVE")>>>>, FALSE, FALSE, "ok")>>

Configs == DOMAIN CfgDef

\* The args of a write: the selector and the payload.  Either object may be missing
\* from args (present is FALSE), and a field missing from an object is Undefined.
Where(id) == [present |-> TRUE, id |-> id]
DataWith(status, role) == [present |-> TRUE, status |-> status, role |-> role]
Data(status) == DataWith(status, Undefined)
NoWhere == [present |-> FALSE, id |-> Undefined]
NoData == [present |-> FALSE, status |-> Undefined, role |-> Undefined]
Args(id, status) == [where |-> Where(id), data |-> Data(status)]
\* The args of an envelope that has no args field: undefined.
MissingArgs == [missing |-> TRUE]
IsMissing(args) == "missing" \in DOMAIN args
ArgsPool == {Args("1", "ACTIVE"), Args(Undefined, "PENDING")}

\* obj?.[field]
OptField(obj, field) == IF obj.present THEN obj[field] ELSE Undefined

\* The field condition without the Array.isArray branch.
FieldCond_NoArrays(cond, val) ==
  IF cond.kind = "true" THEN (IF val # Undefined THEN "true" ELSE "false")
  ELSE IF cond.kind = "val" /\ cond.v = val THEN "true"
  ELSE IF cond.kind = "fn" THEN ApplyFn(cond.f, val)
  ELSE "false"

\* One field condition of matches(): "true", "false" or "throw".
FieldCond(cond, val) ==
  IF cond.kind = "true" THEN (IF val # Undefined THEN "true" ELSE "false")
  ELSE IF cond.kind = "val" /\ cond.v = val THEN "true"
  ELSE IF cond.kind = "arr" THEN (IF val \in cond.s THEN "true" ELSE "false")
  ELSE IF cond.kind = "fn" THEN ApplyFn(cond.f, val)
  ELSE "false"

\* A test of the first entry alone in place of Array.prototype.every.
Every_FirstOnly(filter, obj) ==
  IF filter = <<>> THEN "true"
  ELSE FieldCond(Head(filter)[2], OptField(obj, Head(filter)[1]))

\* Array.prototype.every over Object.entries(filter): first false or throw ends it.
RECURSIVE Every(_, _)
Every(filter, obj) ==
  IF filter = <<>> THEN "true"
  ELSE LET r == FieldCond(Head(filter)[2], OptField(obj, Head(filter)[1]))
       IN IF r = "true" THEN Every(Tail(filter), obj) ELSE r

\* matches with `!config.where ? false` and `!config.data ? false`.
matches_FilterRequired(c, args) ==
  IF CfgDef[c].where = NoFilter \/ CfgDef[c].data = NoFilter THEN "false"
  ELSE LET where == Every(CfgDef[c].where, args.where)
       IN IF where = "throw" THEN "throw"
          ELSE LET data == Every(CfgDef[c].data, args.data)
               IN IF data = "throw" THEN "throw"
                  ELSE IF where = "true" /\ data = "true" THEN "true" ELSE "false"

\* matches(config, args): "true", "false" or "throw". With args undefined the
\* first filter there is throws a TypeError at args.where or args.data.
matches(c, args) ==
  IF IsMissing(args)
  THEN (IF CfgDef[c].where # NoFilter \/ CfgDef[c].data # NoFilter THEN "throw" ELSE "true")
  ELSE
  LET where == Every(CfgDef[c].where, args.where)
  IN IF where = "throw" THEN "throw"
     ELSE LET data == Every(CfgDef[c].data, args.data)
          IN IF data = "throw" THEN "throw"
             ELSE IF where = "true" /\ data = "true" THEN "true" ELSE "false"


(* ------------------------------------------------------------------ *)
(* Extension options and MQTT configuration                            *)
(* ------------------------------------------------------------------ *)
\* MqttConfig { enabled, brokerUrl, topicPrefix }; topicPrefix <<>> is "not set".
\* clientId is options?.clientId, "undefined" when the options have none.
MqttConfigWithId(enabled, brokerUrl, topicPrefix, clientId) ==
  [enabled |-> enabled, brokerUrl |-> brokerUrl, topicPrefix |-> topicPrefix,
   clientId |-> clientId]

MqttConfig(enabled, brokerUrl, topicPrefix) ==
  MqttConfigWithId(enabled, brokerUrl, topicPrefix, Undefined)

\* The client identity mqtt.connect(config.brokerUrl, config.options) uses: the
\* configured one, or one the library draws. An identity is a sequence of parts.
PublisherId(config) ==
  IF config.clientId # Undefined THEN <<config.clientId>> ELSE <<"mqttjs_", "random">>

\* `${clientId}-subscriber`, or `prisma-subscriber-${random}`
SubscriberId(config) ==
  IF config.clientId # Undefined THEN <<config.clientId, "-subscriber">>
  ELSE <<"prisma-subscriber-", "random">>

GoodUrl == "mqtt://broker:1883"
BadUrl == "bogus://broker"

\* mqtt.connect(url, options) throws on a URL whose protocol it does not know.
ConnectThrows(url) == url = BadUrl

\* ExtensionOptions.emit: a boolean, an object of per-operation flags, or undefined.
\* A flag is "true", "false" or "undefined".
EmitBool(b) == [kind |-> "bool", b |-> b, flags |-> [o \in Ops |-> Undefined]]
EmitFlags(f) == [kind |-> "object", b |-> FALSE, flags |-> f]
EmitUndefined == [kind |-> "undefined", b |-> FALSE, flags |-> [o \in Ops |-> Undefined]]

\* A value that is null or one object is a sequence of length 0 or 1.
IsNull(x) == x = <<>>
Some(x) == <<x>>
Get(x) == x[1]

ExtensionOptions(emit, mqtt) == [emit |-> emit, mqtt |-> mqtt]

\* v ?? false, for a flag v
Flag(v) == v = "true"

\* The emitConfig closure of listenerExtensionConfig: operation -> BOOLEAN.
EmitConfigOf(options) ==
  IF options.emit.kind = "bool"
  THEN [o \in Ops |-> options.emit.b]
  ELSE [o \in Ops |-> Flag(options.emit.flags[o])]

(* ------------------------------------------------------------------ *)
(* The emit argument of one call and parseEmitConfig                   *)
(* ------------------------------------------------------------------ *)
\* args.emit: absent, a boolean, or { local, remote } (a member may be undefined).
EmitAbsent == [kind |-> "absent", b |-> FALSE, local |-> Undefined, remote |-> Undefined]
EmitArgBool(b) == [kind |-> "bool", b |-> b, local |-> Undefined, remote |-> Undefined]
EmitArgObj(l, r) == [kind |-> "object", b |-> FALSE, local |-> l, remote |-> r]

Truthy(v) == v = "true"

\* parseEmitConfig that takes an absent emit for emit: true.
parseEmitConfig_AbsentEmits(emit) ==
  IF emit.kind = "absent"
  THEN [shouldEmit |-> TRUE, local |-> TRUE, remote |-> TRUE]
  ELSE IF emit.kind = "bool"
  THEN [shouldEmit |-> emit.b, local |-> emit.b, remote |-> emit.b]
  ELSE [shouldEmit |-> Truthy(emit.local) \/ Truthy(emit.remote),
        local |-> Flag(emit.local),
        remote |-> Flag(emit.remote)]

parseEmitConfig(emit) ==
  IF emit.kind = "absent" \/ (emit.kind = "bool" /\ ~emit.b)
  THEN [shouldEmit |-> FALSE, local |-> FALSE, remote |-> FALSE]
  ELSE IF emit.kind = "bool"
  THEN [shouldEmit |-> emit.b, local |-> emit.b, remote |-> emit.b]
  ELSE [shouldEmit |-> Truthy(emit.local) \/ Truthy(emit.remote),
        local |-> Flag(emit.local),
        remote |-> Flag(emit.remote)]

(* ------------------------------------------------------------------ *)
(* JSON.stringify / JSON.parse of an event payload                     *)
(* ------------------------------------------------------------------ *)
\* A Date becomes its ISO string; strings and numbers come back unchanged.
JsonValue(v) == IF Structure(v) = "Date(t1)" THEN "2024-01-01T00:00:00.000Z" ELSE v

JsonRoundTrip(obj) == [k \in DOMAIN obj |-> JsonValue(obj[k])]

Result(id, createdAt) == [id |-> id, createdAt |-> createdAt]
ResultPool == {Result("1", "Date(t1)"), Result("2", "n/a")}

(* ------------------------------------------------------------------ *)
(* State                                                               *)
(* ------------------------------------------------------------------ *)
\* The keys the topic table can hold.
SubTopics == {prefix \o <<m, "#">> : prefix \in {DefaultPrefix, CustomPrefix}, m \in ModelKeys}

\* MaxClients bounds the client objects one process has open at a time.
ClientIds == 1..(MaxClients * Cardinality(Procs))
NoClient == 0

VARIABLES
  listeners,         \* listeners[p][model]: the array of configs (<<>> when not set)
  unregisterFns,     \* the unregister closures returned so far: <<p, model, config>>
  extensions,        \* extensions[p]: emitConfig closures of the extensions created
  mqttPublisher,     \* mqttPublisher[p]: client id or NoClient
  mqttSubscriber,    \* mqttSubscriber[p]: client id or NoClient
  mqttConfig,        \* mqttConfig[p]: <<>> (null) or <<config>>
  mqttSubscriptions, \* mqttSubscriptions[p][topic]: <<>> (no entry) or <<the Set, in
                     \* insertion order>>
  clients,           \* clients[id]: the MQTT client objects created by mqtt.connect
  requests,          \* requests[id]: SUBSCRIBE/UNSUBSCRIBE packets not yet acknowledged
  brokerSubs,        \* brokerSubs[id]: topic filters the broker holds for the client
  refused,           \* the clients a request of which the broker has refused
  endCallbacks,      \* pending callbacks of client.end(): [proc, role, client]
  publishes,         \* PUBLISH packets not yet acknowledged: [client, topic, w]
  inbox,             \* inbox[id]: messages routed to a subscriber, not yet delivered
  writes,            \* the intercepted operations, in order
  tasks,             \* tasks[w]: the runListeners call of write w
  calls,             \* listener invocations, in order
  handled,           \* <<p, w>>: handleMqttMessage of p has run for write w's event
  now,               \* Date.now(), in seconds
  received,          \* the payloads of other publishers handled: [proc, topic, message,
                     \* invoked, escaped], in order
  matchCall,         \* a call of matches on its own: <<>> or <<[config, args, result]>>
  disconnects        \* the promises disconnectMqtt returned, in order of the calls

vars == <<listeners, unregisterFns, extensions, mqttPublisher, mqttSubscriber,
          mqttConfig, mqttSubscriptions, clients, requests, brokerSubs, refused,
          endCallbacks, publishes, inbox, writes, tasks, calls, handled, now,
          matchCall, disconnects, received>>

registryVars == <<listeners, unregisterFns>>
mqttVars == <<mqttPublisher, mqttSubscriber, mqttConfig, mqttSubscriptions>>
brokerVars == <<clients, requests, brokerSubs, refused, endCallbacks, publishes, inbox>>
writeVars == <<writes, tasks, calls, handled>>
otherVars == <<now, matchCall, disconnects, received>>

FreeClient == [owner |-> "none", role |-> "none", state |-> "free", clientId |-> <<>>]

InitProgram ==
  /\ listeners = [p \in Procs |-> [m \in ModelKeys |-> <<>>]]
  /\ unregisterFns = {}
  /\ extensions = [p \in Procs |-> {}]
  /\ mqttPublisher = [p \in Procs |-> NoClient]
  /\ mqttSubscriber = [p \in Procs |-> NoClient]
  /\ mqttConfig = [p \in Procs |-> <<>>]
  /\ mqttSubscriptions = [p \in Procs |-> [t \in SubTopics |-> <<>>]]
  /\ clients = [i \in ClientIds |-> FreeClient]
  /\ requests = [i \in ClientIds |-> <<>>]
  /\ brokerSubs = [i \in ClientIds |-> {}]
  /\ refused = {}
  /\ endCallbacks = {}
  /\ publishes = {}
  /\ inbox = [i \in ClientIds |-> {}]
  /\ writes = <<>>
  /\ tasks = <<>>
  /\ calls = <<>>
  /\ handled = {}
  /\ now = 0
  /\ disconnects = <<>>
  /\ received = <<>>

Init == InitProgram /\ matchCall = <<>>


(* ------------------------------------------------------------------ *)
(* mqtt.connect and the client objects                                 *)
(* ------------------------------------------------------------------ *)
FreeIds == {i \in ClientIds : clients[i].state = "free"}

\* The object a call of mqtt.connect returns.
NewClient == CHOOSE i \in FreeIds : \A j \in FreeIds : i <= j

\* Process p may create one more client (a bound of the model).
CanConnect(p) ==
  Cardinality({i \in ClientIds : clients[i].owner = p}) < MaxClients

\* The next call of subscribeToMqttTopic in p will create the subscriber client.
WillCreateSubscriber(p) ==
  /\ ~IsNull(mqttConfig[p])
  /\ Get(mqttConfig[p]).enabled
  /\ mqttSubscriber[p] = NoClient
  /\ ~ConnectThrows(Get(mqttConfig[p]).brokerUrl)

Connecting(p, role, clientId) ==
  [owner |-> p, role |-> role, state |-> "connecting", clientId |-> clientId]

\* client.connected
Connected(id) == id # NoClient /\ clients[id].state = "connected"

\* mqttConfig?.enabled
ConfigEnabled(p) == ~IsNull(mqttConfig[p]) /\ Get(mqttConfig[p]).enabled

(* ------------------------------------------------------------------ *)
(* mqtt.ts                                                             *)
(* ------------------------------------------------------------------ *)
\* initializeMqtt without `if (!config.enabled) return`.
initializeMqtt_IgnoresEnabled(p, config) ==
  /\ mqttConfig' = [mqttConfig EXCEPT ![p] = Some(config)]
  /\ IF ConnectThrows(config.brokerUrl)
     THEN UNCHANGED <<mqttPublisher, clients>>
     ELSE /\ CanConnect(p)
          /\ mqttPublisher' = [mqttPublisher EXCEPT ![p] = NewClient]
          /\ clients' = [clients EXCEPT ![NewClient] = Connecting(p, "publisher", PublisherId(config))]

initializeMqtt(p, config) ==
  IF ~config.enabled
  THEN UNCHANGED <<mqttConfig, mqttPublisher, clients>>
  ELSE /\ mqttConfig' = [mqttConfig EXCEPT ![p] = Some(config)]
       /\ IF ConnectThrows(config.brokerUrl)
          THEN UNCHANGED <<mqttPublisher, clients>>
          ELSE /\ CanConnect(p)
               /\ mqttPublisher' = [mqttPublisher EXCEPT ![p] = NewClient]
               /\ clients' = [clients EXCEPT ![NewClient] = Connecting(p, "publisher", PublisherId(config))]

\* ensureSubscriberInitialized that takes the publisher's client when there is one.
ensureSubscriberInitialized_SharesPublisher(p) ==
  IF mqttSubscriber[p] # NoClient \/ ~ConfigEnabled(p)
  THEN mqttSubscriber[p]
  ELSE IF mqttPublisher[p] # NoClient THEN mqttPublisher[p]
  ELSE IF ConnectThrows(Get(mqttConfig[p]).brokerUrl)
       THEN NoClient
       ELSE NewClient

\* The value of mqttSubscriber after ensureSubscriberInitialized().
ensureSubscriberInitialized(p) ==
  IF mqttSubscriber[p] # NoClient \/ ~ConfigEnabled(p)
  THEN mqttSubscriber[p]
  ELSE IF ConnectThrows(Get(mqttConfig[p]).brokerUrl)
       THEN NoClient
       ELSE NewClient

\* client.subscribe / client.unsubscribe: the packet is queued for the broker unless
\* the client is disconnecting, when the callback gets an error and nothing is sent.
SendRequest(reqs, id, state, op, topic) ==
  IF state \in {"connecting", "connected"}
  THEN [reqs EXCEPT ![id] = Append(@, [op |-> op, topic |-> topic])]
  ELSE reqs

\* Set.prototype.add on the Set kept in insertion order
SetAdd(set, c) ==
  IF \E i \in DOMAIN set : set[i] = c THEN set ELSE Append(set, c)

\* Set.prototype.delete
SetDelete(set, c) == SelectSeq(set, LAMBDA x : x # c)

\* subscribeToMqttTopic without the `has(topic)` test: subscribes on every call.
subscribeToMqttTopic_AlwaysSubscribes(p, model, config) ==
  IF ~ConfigEnabled(p)
  THEN UNCHANGED <<mqttSubscriber, mqttSubscriptions, clients, requests>>
  ELSE LET created == mqttSubscriber[p] = NoClient
           sub == ensureSubscriberInitialized(p)
           topic == SubscribeTopic(Get(mqttConfig[p]), model)
           state == IF created THEN "connecting" ELSE clients[sub].state
           has == ~IsNull(mqttSubscriptions[p][topic])
           set == IF has THEN Get(mqttSubscriptions[p][topic]) ELSE <<>>
       IN IF sub = NoClient
          THEN UNCHANGED <<mqttSubscriber, mqttSubscriptions, clients, requests>>
          ELSE /\ mqttSubscriber' = [mqttSubscriber EXCEPT ![p] = sub]
               /\ clients' = IF created
                             THEN [clients EXCEPT ![sub] = Connecting(p, "subscriber",
                                                             SubscriberId(Get(mqttConfig[p])))]
                             ELSE clients
               /\ requests' = SendRequest(requests, sub, state, "subscribe", topic)
               /\ mqttSubscriptions' =
                    [mqttSubscriptions EXCEPT ![p][topic] = Some(SetAdd(set, config))]

subscribeToMqttTopic(p, model, config) ==
  IF ~ConfigEnabled(p)
  THEN UNCHANGED <<mqttSubscriber, mqttSubscriptions, clients, requests>>
  ELSE LET created == mqttSubscriber[p] = NoClient
           sub == ensureSubscriberInitialized(p)
           topic == SubscribeTopic(Get(mqttConfig[p]), model)
           state == IF created THEN "connecting" ELSE clients[sub].state
           has == ~IsNull(mqttSubscriptions[p][topic])
           set == IF has THEN Get(mqttSubscriptions[p][topic]) ELSE <<>>
       IN IF sub = NoClient
          THEN UNCHANGED <<mqttSubscriber, mqttSubscriptions, clients, requests>>
          ELSE /\ mqttSubscriber' = [mqttSubscriber EXCEPT ![p] = sub]
               /\ clients' = IF created
                             THEN [clients EXCEPT ![sub] = Connecting(p, "subscriber",
                                                             SubscriberId(Get(mqttConfig[p])))]
                             ELSE clients
               /\ requests' = IF has THEN requests
                              ELSE SendRequest(requests, sub, state, "subscribe", topic)
               /\ mqttSubscriptions' =
                    [mqttSubscriptions EXCEPT ![p][topic] = Some(SetAdd(set, config))]

\* unsubscribeFromMqttTopic that deletes the entry of the last listener without
\* telling the broker.
unsubscribeFromMqttTopic_NoUnsubscribe(p, model, config) ==
  IF ~ConfigEnabled(p) \/ mqttSubscriber[p] = NoClient
  THEN UNCHANGED <<mqttSubscriptions, requests>>
  ELSE LET topic == SubscribeTopic(Get(mqttConfig[p]), model)
           entry == mqttSubscriptions[p][topic]
       IN IF IsNull(entry)
          THEN UNCHANGED <<mqttSubscriptions, requests>>
          ELSE LET set == SetDelete(Get(entry), config)
               IN /\ requests' = requests
                  /\ mqttSubscriptions' =
                       [mqttSubscriptions EXCEPT ![p][topic] =
                          IF set = <<>> THEN <<>> ELSE Some(set)]

unsubscribeFromMqttTopic(p, model, config) ==
  IF ~ConfigEnabled(p) \/ mqttSubscriber[p] = NoClient
  THEN UNCHANGED <<mqttSubscriptions, requests>>
  ELSE LET sub == mqttSubscriber[p]
           topic == SubscribeTopic(Get(mqttConfig[p]), model)
           entry == mqttSubscriptions[p][topic]
       IN IF IsNull(entry)
          THEN UNCHANGED <<mqttSubscriptions, requests>>
          ELSE LET set == SetDelete(Get(entry), config)
               IN IF set = <<>>
                  THEN /\ requests' = SendRequest(requests, sub, clients[sub].state,
                                                  "unsubscribe", topic)
                       /\ mqttSubscriptions' = [mqttSubscriptions EXCEPT ![p][topic] = <<>>]
                  ELSE /\ requests' = requests
                       /\ mqttSubscriptions' =
                            [mqttSubscriptions EXCEPT ![p][topic] = Some(set)]

\* client.end(false, {}, callback): the client starts closing; the callback is pending.
EndClient(cs, id) ==
  IF id = NoClient THEN cs ELSE [cs EXCEPT ![id].state = "ending"]

EndCallbackOf(p, role, id) ==
  IF id = NoClient THEN {} ELSE {[proc |-> p, role |-> role, client |-> id]}

\* The promise of disconnectMqtt: `promises` holds one promise per client it ends,
\* each resolved by the callback given to end(); it is resolved at once when
\* promises.length === 0 and by Promise.all(promises) otherwise.
DisconnectPromise(p, promises) ==
  [proc |-> p, waits |-> promises, resolved |-> promises = {}]

\* Promise.race in place of Promise.all: the first callback resolves the promise.
Settle_Race(ds, cb) ==
  [k \in DOMAIN ds |->
     [ds[k] EXCEPT !.waits = @ \ {cb}, !.resolved = ds[k].resolved \/ cb \in ds[k].waits]]

\* The callback cb runs: its res() settles its promise, and Promise.all(promises)
\* resolves the promise of each disconnectMqtt call whose promises are all settled.
Settle(ds, cb) ==
  [k \in DOMAIN ds |->
     [ds[k] EXCEPT !.waits = @ \ {cb}, !.resolved = ds[k].waits \ {cb} = {}]]

disconnectMqtt(p) ==
  LET promises == EndCallbackOf(p, "publisher", mqttPublisher[p])
                    \cup EndCallbackOf(p, "subscriber", mqttSubscriber[p])
  IN /\ clients' = EndClient(EndClient(clients, mqttPublisher[p]), mqttSubscriber[p])
     /\ endCallbacks' = endCallbacks \cup promises
     /\ disconnects' = Append(disconnects, DisconnectPromise(p, promises))

\* The callback given to mqttPublisher.end
PublisherEnded(p) ==
  /\ mqttPublisher' = [mqttPublisher EXCEPT ![p] = NoClient]
  /\ mqttConfig' = [mqttConfig EXCEPT ![p] = <<>>]
  /\ UNCHANGED <<mqttSubscriber, mqttSubscriptions>>

\* The callback given to mqttSubscriber.end
SubscriberEnded(p) ==
  /\ mqttSubscriber' = [mqttSubscriber EXCEPT ![p] = NoClient]
  /\ mqttSubscriptions' = [mqttSubscriptions EXCEPT ![p] = [t \in SubTopics |-> <<>>]]
  /\ UNCHANGED <<mqttPublisher, mqttConfig>>


(* ------------------------------------------------------------------ *)
(* listeners.ts: executeLocalListeners                                 *)
(* ------------------------------------------------------------------ *)
Call(p, c, w, source, result) ==
  [proc |-> p, cfg |-> c, w |-> w, source |-> source, result |-> result]

\* The loop of executeLocalListeners over the array arr from index i, run until the
\* function suspends at an await, returns or throws:
\*   pc "awaitListener": suspended at `await cfg.listener(...)` of arr[idx]
\*   pc "awaitLocal":    the loop is over, the caller's await is pending
\*   pc "rejected":      matches() threw, the promise is rejected
\* invoked: the configs whose listener was called on the way.
\* executeLocalListeners without the remoteOnly test.
RECURSIVE executeLocalListeners_NoRemoteOnlySkip(_, _, _, _)
executeLocalListeners_NoRemoteOnlySkip(arr, i, args, source) ==
  IF i > Len(arr)
  THEN [pc |-> "awaitLocal", idx |-> i, invoked |-> <<>>]
  ELSE IF matches(arr[i], args) = "throw"
  THEN [pc |-> "rejected", idx |-> i, invoked |-> <<>>]
  ELSE IF matches(arr[i], args) = "false"
  THEN executeLocalListeners_NoRemoteOnlySkip(arr, i + 1, args, source)
  ELSE IF CfgDef[arr[i]].listener = "throw"
  THEN LET rest == executeLocalListeners_NoRemoteOnlySkip(arr, i + 1, args, source)
       IN [rest EXCEPT !.invoked = <<arr[i]>> \o @]
  ELSE [pc |-> "awaitListener", idx |-> i, invoked |-> <<arr[i]>>]

RECURSIVE executeLocalListeners(_, _, _, _)
executeLocalListeners(arr, i, args, source) ==
  IF i > Len(arr)
  THEN [pc |-> "awaitLocal", idx |-> i, invoked |-> <<>>]
  ELSE IF CfgDef[arr[i]].remoteOnly /\ source = "local"
  THEN executeLocalListeners(arr, i + 1, args, source)
  ELSE IF matches(arr[i], args) = "throw"
  THEN [pc |-> "rejected", idx |-> i, invoked |-> <<>>]
  ELSE IF matches(arr[i], args) = "false"
  THEN executeLocalListeners(arr, i + 1, args, source)
  ELSE IF CfgDef[arr[i]].listener = "throw"
  THEN LET rest == executeLocalListeners(arr, i + 1, args, source)
       IN [rest EXCEPT !.invoked = <<arr[i]>> \o @]
  ELSE [pc |-> "awaitListener", idx |-> i, invoked |-> <<arr[i]>>]

(* ------------------------------------------------------------------ *)
(* mqtt.ts: publishToMqtt                                              *)
(* ------------------------------------------------------------------ *)
\* publishToMqtt without the test of mqttPublisher.connected.
publishToMqtt_NoConnectedTest(p, w, model, operation) ==
  IF mqttPublisher[p] = NoClient \/ ~ConfigEnabled(p)
  THEN {}
  ELSE {[client |-> mqttPublisher[p],
         topic |-> PublishTopic(Get(mqttConfig[p]), model, operation),
         w |-> w]}

\* The PUBLISH packet publishToMqtt sends for write w of p, if it sends one.
publishToMqtt(p, w, model, operation) ==
  IF mqttPublisher[p] = NoClient \/ ~ConfigEnabled(p) \/ ~Connected(mqttPublisher[p])
  THEN {}
  ELSE {[client |-> mqttPublisher[p],
         topic |-> PublishTopic(Get(mqttConfig[p]), model, operation),
         w |-> w]}

(* ------------------------------------------------------------------ *)
(* runner.ts: runListeners, as a task that runs from await to await    *)
(* ------------------------------------------------------------------ *)
NoTask == [pc |-> "none", idx |-> 0, arr |-> <<>>, live |-> FALSE, key |-> "none",
           local |-> FALSE, remote |-> FALSE, dispatched |-> FALSE,
           publishCalled |-> FALSE, sentAt |-> -1]

\* The second half of runListeners: `if (remote) { await publishToMqtt(...) }`.
\*   pc "awaitPublishAck": the packet is sent, the broker's acknowledgement pending
\*   pc "awaitPublish":    publishToMqtt returned without sending, the await pending
PublishPart(task, p, w, model, operation) ==
  IF ~task.remote
  THEN [task |-> [task EXCEPT !.pc = "done"], sent |-> {}]
  ELSE LET sent == publishToMqtt(p, w, model, operation)
       IN [task |-> [task EXCEPT !.publishCalled = TRUE,
                                 !.sentAt = IF sent = {} THEN @ ELSE now,
                                 !.pc = IF sent = {} THEN "awaitPublish"
                                        ELSE "awaitPublishAck"],
           sent |-> sent]

\* runListeners that calls publishToMqtt without awaiting executeLocalListeners.
runListeners_NoAwait(p, w, model, args, operation, local, remote) ==
  LET key == camelizeIt(model)
      arr == listeners[p][key]
      t0 == [NoTask EXCEPT !.local = local, !.remote = remote, !.key = key]
  IN IF local
     THEN LET r == executeLocalListeners(arr, 1, args, "local")
          IN [task |-> [t0 EXCEPT !.pc = r.pc, !.idx = r.idx, !.arr = arr,
                                  !.live = TRUE, !.dispatched = TRUE,
                                  !.publishCalled = remote],
              invoked |-> r.invoked,
              sent |-> IF remote THEN publishToMqtt(p, w, model, operation) ELSE {}]
     ELSE LET r == PublishPart(t0, p, w, model, operation)
          IN [task |-> r.task, invoked |-> <<>>, sent |-> r.sent]

\* runListeners that dispatches to the local listeners only while a broker
\* configuration is stored.
runListeners_NeedsBroker(p, w, model, args, operation, local, remote) ==
  LET key == camelizeIt(model)
      arr == IF ConfigEnabled(p) THEN listeners[p][key] ELSE <<>>
      t0 == [NoTask EXCEPT !.local = local, !.remote = remote, !.key = key]
  IN IF local
     THEN LET r == executeLocalListeners(arr, 1, args, "local")
          IN [task |-> [t0 EXCEPT !.pc = r.pc, !.idx = r.idx, !.arr = arr,
                                  !.live = TRUE, !.dispatched = TRUE],
              invoked |-> r.invoked,
              sent |-> {}]
     ELSE LET r == PublishPart(t0, p, w, model, operation)
          IN [task |-> r.task, invoked |-> <<>>, sent |-> r.sent]

\* runListeners(model, args, result, operation, { local, remote }) up to its first
\* suspension: the task, the listeners invoked and the packet sent.
runListeners(p, w, model, args, operation, local, remote) ==
  LET key == camelizeIt(model)
      arr == listeners[p][key]
      t0 == [NoTask EXCEPT !.local = local, !.remote = remote, !.key = key]
  IN IF local
     THEN LET r == executeLocalListeners(arr, 1, args, "local")
          IN [task |-> [t0 EXCEPT !.pc = r.pc, !.idx = r.idx, !.arr = arr,
                                  !.live = TRUE, !.dispatched = TRUE],
              invoked |-> r.invoked,
              sent |-> {}]
     ELSE LET r == PublishPart(t0, p, w, model, operation)
          IN [task |-> r.task, invoked |-> <<>>, sent |-> r.sent]

\* The calls appended to the log when the listeners in `invoked` run for write w.
RECURSIVE CallsOf(_, _, _, _, _)
CallsOf(p, invoked, w, source, result) ==
  IF invoked = <<>> THEN <<>>
  ELSE <<Call(p, Head(invoked), w, source, result)>>
         \o CallsOf(p, Tail(invoked), w, source, result)


(* ------------------------------------------------------------------ *)
(* mqtt.ts: handleMqttMessage                                          *)
(* ------------------------------------------------------------------ *)
\* mqttSubscriptions.get(topic)
TableGet(p, topic) ==
  IF topic \in SubTopics THEN mqttSubscriptions[p][topic] ELSE <<>>

\* subscribers.forEach(async (config) => { if (matches(config, args)) ... }):
\* the configs whose listener is called; a throwing matches() rejects that one
\* callback's promise and the others still run.
RECURSIVE ForEachSubscriber(_, _)
ForEachSubscriber(set, args) ==
  IF set = <<>> THEN <<>>
  ELSE (IF matches(Head(set), args) = "true" THEN <<Head(set)>> ELSE <<>>)
         \o ForEachSubscriber(Tail(set), args)

\* handleMqttMessage with the table looked up by wildcard match instead of by key.
handleMqttMessage_WildcardLookup(p, topic, event) ==
  LET keys == {t \in SubTopics : TopicMatches(t, topic) /\ ~IsNull(mqttSubscriptions[p][t])}
  IN IF keys = {}
     THEN <<>>
     ELSE ForEachSubscriber(Get(mqttSubscriptions[p][CHOOSE t \in keys : TRUE]), event.args)

\* handleMqttMessage that hands the event to every listener registered for the model.
handleMqttMessage_WholeRegistry(p, topic, event) ==
  ForEachSubscriber(listeners[p][camelizeIt(event.model)], event.args)

\* The configs handleMqttMessage(topic, message) invokes in process p.
handleMqttMessage(p, topic, event) ==
  LET subscribers == TableGet(p, topic)
  IN IF IsNull(subscribers) \/ Get(subscribers) = <<>>
     THEN <<>>
     ELSE ForEachSubscriber(Get(subscribers), event.args)

(* ------------------------------------------------------------------ *)
(* Actions: the exported functions                                     *)
(* ------------------------------------------------------------------ *)
\* listenerExtensionConfig(options)
ListenerExtensionConfig(p, options) ==
  /\ extensions' = [extensions EXCEPT ![p] = @ \cup {EmitConfigOf(options)}]
  /\ IF IsNull(options.mqtt)
     THEN UNCHANGED <<mqttConfig, mqttPublisher, clients>>
     ELSE initializeMqtt(p, Get(options.mqtt))
  /\ UNCHANGED <<registryVars, mqttSubscriber, mqttSubscriptions, requests, brokerSubs, refused,
                 endCallbacks, publishes, inbox, writeVars, otherVars>>

\* listeners[model].push(config), seen by a loop still iterating that array
PushLive(ts, p, model, config) ==
  [w \in DOMAIN ts |->
     IF writes[w].proc = p /\ ts[w].key = model /\ ts[w].live
        /\ ts[w].pc = "awaitListener"
     THEN [ts[w] EXCEPT !.arr = Append(@, config)]
     ELSE ts[w]]

\* listeners[model] = listeners[model].filter(...): a new array; a loop in flight
\* keeps iterating the old one
Detach(ts, p, model) ==
  [w \in DOMAIN ts |->
     IF writes[w].proc = p /\ ts[w].key = model
     THEN [ts[w] EXCEPT !.live = FALSE]
     ELSE ts[w]]

\* Room for one more packet in the queue of the subscriber of p (a bound of the model).
RequestRoom(p) ==
  mqttSubscriber[p] # NoClient => Len(requests[mqttSubscriber[p]]) < MaxRequests

\* prismaEventListener that registers the listener only when the broker side of the
\* registration was carried out.
PrismaEventListener_NeedsBroker(p, model, config) ==
  /\ Len(listeners[p][model]) < MaxListeners
  /\ RequestRoom(p)
  /\ (CfgDef[config].allowRemote /\ WillCreateSubscriber(p)) => CanConnect(p)
  /\ unregisterFns' = unregisterFns \cup {<<p, model, config>>}
  /\ IF CfgDef[config].allowRemote
     THEN /\ subscribeToMqttTopic(p, model, config)
          /\ IF ConfigEnabled(p) /\ ensureSubscriberInitialized(p) # NoClient
             THEN /\ listeners' = [listeners EXCEPT ![p][model] = Append(@, config)]
                  /\ tasks' = PushLive(tasks, p, model, config)
             ELSE UNCHANGED <<listeners, tasks>>
     ELSE /\ listeners' = [listeners EXCEPT ![p][model] = Append(@, config)]
          /\ tasks' = PushLive(tasks, p, model, config)
          /\ UNCHANGED <<mqttSubscriber, mqttSubscriptions, clients, requests>>
  /\ UNCHANGED <<extensions, mqttPublisher, mqttConfig, brokerSubs, refused, endCallbacks,
                 publishes, inbox, writes, calls, handled, otherVars>>

\* prismaEventListener(model, config)
PrismaEventListener(p, model, config) ==
  /\ Len(listeners[p][model]) < MaxListeners
  /\ RequestRoom(p)
  /\ (CfgDef[config].allowRemote /\ WillCreateSubscriber(p)) => CanConnect(p)
  /\ listeners' = [listeners EXCEPT ![p][model] = Append(@, config)]
  /\ unregisterFns' = unregisterFns \cup {<<p, model, config>>}
  /\ tasks' = PushLive(tasks, p, model, config)
  /\ IF CfgDef[config].allowRemote
     THEN subscribeToMqttTopic(p, model, config)
     ELSE UNCHANGED <<mqttSubscriber, mqttSubscriptions, clients, requests>>
  /\ UNCHANGED <<extensions, mqttPublisher, mqttConfig, brokerSubs, refused, endCallbacks,
                 publishes, inbox, writes, calls, handled, otherVars>>

\* The function prismaEventListener(model, config) returned
Unregister(p, model, config) ==
  /\ <<p, model, config>> \in unregisterFns
  /\ RequestRoom(p)
  /\ listeners' = [listeners EXCEPT ![p][model] = SelectSeq(@, LAMBDA l : l # config)]
  /\ tasks' = Detach(tasks, p, model)
  /\ IF CfgDef[config].allowRemote
     THEN unsubscribeFromMqttTopic(p, model, config)
     ELSE UNCHANGED <<mqttSubscriptions, requests>>
  /\ UNCHANGED <<unregisterFns, extensions, mqttPublisher, mqttSubscriber, mqttConfig,
                 clients, brokerSubs, refused, endCallbacks, publishes, inbox, writes, calls,
                 handled, otherVars>>

\* disconnectMqtt()
DisconnectMqtt(p) ==
  /\ Len(disconnects) < MaxDisconnects
  /\ disconnectMqtt(p)
  /\ UNCHANGED <<registryVars, extensions, mqttVars, requests, brokerSubs, refused, publishes,
                 inbox, writeVars, now, matchCall, received>>

(* ------------------------------------------------------------------ *)
(* Actions: the MQTT clients and the broker                            *)
(* ------------------------------------------------------------------ *)
\* 'connect' of a client
ClientConnect(id) ==
  /\ clients[id].state = "connecting"
  /\ clients' = [clients EXCEPT ![id].state = "connected"]
  /\ UNCHANGED <<registryVars, extensions, mqttVars, requests, brokerSubs, refused, endCallbacks,
                 publishes, inbox, writeVars, otherVars>>

\* The broker answers the oldest SUBSCRIBE/UNSUBSCRIBE of a client, granting it or
\* not; the callback the code passed only logs.
BrokerAck(id, granted) ==
  /\ clients[id].state \in {"connected", "ending"}
  /\ requests[id] # <<>>
  /\ requests' = [requests EXCEPT ![id] = Tail(@)]
  /\ brokerSubs' =
       IF ~granted THEN brokerSubs
       ELSE IF Head(requests[id]).op = "subscribe"
       THEN [brokerSubs EXCEPT ![id] = @ \cup {Head(requests[id]).topic}]
       ELSE [brokerSubs EXCEPT ![id] = @ \ {Head(requests[id]).topic}]
  /\ refused' = IF granted THEN refused ELSE refused \cup {id}
  /\ UNCHANGED <<registryVars, extensions, mqttVars, clients, endCallbacks, publishes,
                 inbox, writeVars, otherVars>>

\* A client that was told to end has closed: the broker drops its session and the
\* callback given to end() runs.
EndCallback(cb) ==
  /\ cb \in endCallbacks
  /\ endCallbacks' = endCallbacks \ {cb}
  /\ clients' = [clients EXCEPT ![cb.client] = FreeClient]
  /\ requests' = [requests EXCEPT ![cb.client] = <<>>]
  /\ brokerSubs' = [brokerSubs EXCEPT ![cb.client] = {}]
  /\ refused' = refused \ {cb.client}
  /\ inbox' = [inbox EXCEPT ![cb.client] = {}]
  /\ IF cb.role = "publisher" THEN PublisherEnded(cb.proc) ELSE SubscriberEnded(cb.proc)
  /\ disconnects' = Settle(disconnects, cb)
  /\ UNCHANGED <<registryVars, extensions, publishes, writeVars, now, matchCall, received>>


(* ------------------------------------------------------------------ *)
(* extension.ts: the query handlers of create/update/updateMany/upsert *)
(* ------------------------------------------------------------------ *)
NoResult == Result(Undefined, Undefined)

\* The handler with `await runListeners(...)`: a rejected dispatch reaches the caller.
InterceptedReturn_AwaitsRunListeners(queryOk, result, started, task) ==
  IF queryOk /\ ~(started /\ task.pc = "rejected")
  THEN [outcome |-> "returned", value |-> result]
  ELSE [outcome |-> "thrown", value |-> NoResult]

\* The handler with `await runListeners(...)`, seen while the emission is unsettled:
\* the caller is still waiting.
InterceptedReturn_WaitsForEmission(queryOk, result, started, task) ==
  IF queryOk /\ started /\ task.pc \in {"awaitListener", "awaitLocal", "awaitPublish",
                                         "awaitPublishAck"}
  THEN [outcome |-> "pending", value |-> NoResult]
  ELSE IF queryOk
  THEN [outcome |-> "returned", value |-> result]
  ELSE [outcome |-> "thrown", value |-> NoResult]

\* What the handler gives its caller: the query's result, or the query's error.
InterceptedReturn(queryOk, result, started, task) ==
  IF queryOk
  THEN [outcome |-> "returned", value |-> result]
  ELSE [outcome |-> "thrown", value |-> NoResult]

\* The object a caller passes to an operation: args with the key `emit`, which is not
\* there when emit is EmitAbsent.
WithEmit(args, emit) == [where |-> args.where, data |-> args.data, emit |-> emit]

\* The handler without `delete args.emit`.
DeleteEmit_Keeps(a) == a

\* `delete (args as any).emit`
DeleteEmit(a) == [a EXCEPT !.emit = EmitAbsent]

\* `if (!('emit' in args) && !emitConfig.emitOnX) return query(args)`
PassThrough(emitConfig, operation, emit) ==
  emit.kind = "absent" /\ ~emitConfig[operation]

\* The handler with runListeners called before `await query(args)` has returned.
Started_BeforeQuery(passThrough, queryOk, shouldEmit) ==
  ~passThrough /\ shouldEmit

\* The handler reaches its call of runListeners: it did not pass the call through,
\* `await query(args)` did not throw, and emitOpts.shouldEmit.
Started(passThrough, queryOk, shouldEmit) ==
  ~passThrough /\ queryOk /\ shouldEmit

\* One intercepted operation of the extension whose closure is emitConfig, from the
\* call to the return, including the part of runListeners that runs before it.
Extension(p, emitConfig, model, operation, args, emit, queryOk, result) ==
  /\ Len(writes) < MaxWrites
  /\ emitConfig \in extensions[p]
  /\ LET w == Len(writes) + 1
         emitOpts == parseEmitConfig(emit)
         passed == WithEmit(args, emit)
         queried == IF PassThrough(emitConfig, operation, emit) THEN passed
                    ELSE DeleteEmit(passed)
         started == Started(PassThrough(emitConfig, operation, emit), queryOk,
                            emitOpts.shouldEmit)
         r == runListeners(p, w, model, queried, operation, emitOpts.local, emitOpts.remote)
         task == IF started THEN r.task ELSE NoTask
         ret == InterceptedReturn(queryOk, result, started, task)
     IN /\ writes' = Append(writes,
                       [proc |-> p, model |-> model, operation |-> operation,
                        args |-> args, emit |-> emit, queryArgs |-> queried,
                        enabled |-> emitConfig[operation],
                        queryOk |-> queryOk, result |-> result,
                        outcome |-> ret.outcome, value |-> ret.value])
        /\ tasks' = Append(tasks, task)
        /\ calls' = IF started
                    THEN calls \o CallsOf(p, r.invoked, w, "local", result)
                    ELSE calls
        /\ publishes' = IF started THEN publishes \cup r.sent ELSE publishes
  /\ UNCHANGED <<registryVars, extensions, mqttVars, clients, requests, brokerSubs, refused,
                 endCallbacks, inbox, handled, otherVars>>

\* `await cfg.listener(...)` settles: a rejection is caught and the loop goes on.
ResumeListener(w) ==
  /\ tasks[w].pc = "awaitListener"
  /\ LET r == executeLocalListeners(tasks[w].arr, tasks[w].idx + 1, writes[w].queryArgs,
                                    "local")
     IN /\ tasks' = [tasks EXCEPT ![w].pc = r.pc, ![w].idx = r.idx]
        /\ calls' = calls \o CallsOf(writes[w].proc, r.invoked, w, "local", writes[w].result)
  /\ UNCHANGED <<registryVars, extensions, mqttVars, brokerVars, writes, handled, otherVars>>

\* `await executeLocalListeners(...)` settles: runListeners goes on to publish.
ResumeLocal(w) ==
  /\ tasks[w].pc = "awaitLocal"
  /\ LET r == PublishPart(tasks[w], writes[w].proc, w, writes[w].model, writes[w].operation)
     IN /\ tasks' = [tasks EXCEPT ![w] = r.task]
        /\ publishes' = publishes \cup r.sent
  /\ UNCHANGED <<registryVars, extensions, mqttVars, clients, requests, brokerSubs, refused,
                 endCallbacks, inbox, writes, calls, handled, otherVars>>

\* `await publishToMqtt(...)` settles when publishToMqtt had returned early.
ResumePublish(w) ==
  /\ tasks[w].pc = "awaitPublish"
  /\ tasks' = [tasks EXCEPT ![w].pc = "done"]
  /\ UNCHANGED <<registryVars, extensions, mqttVars, brokerVars, writes, calls, handled, otherVars>>

\* The subscribers the broker routes a message on topic to.
Route(topic) ==
  {i \in ClientIds : /\ clients[i].state \in {"connected", "ending"}
                     /\ \E f \in brokerSubs[i] : TopicMatches(f, topic)}

\* The broker takes a PUBLISH, routes it to every matching subscription and
\* acknowledges it: the publish callback resolves the promise.
PublishAck(m) ==
  /\ m \in publishes
  /\ publishes' = publishes \ {m}
  /\ inbox' = [i \in ClientIds |->
                 IF i \in Route(m.topic)
                 THEN inbox[i] \cup {[topic |-> m.topic, w |-> m.w]}
                 ELSE inbox[i]]
  /\ tasks' = [tasks EXCEPT ![m.w].pc = "done"]
  /\ UNCHANGED <<registryVars, extensions, mqttVars, clients, requests, brokerSubs, refused,
                 endCallbacks, writes, calls, handled, otherVars>>

\* The publish callback gets an error: the promise rejects, runListeners catches it.
PublishError(m) ==
  /\ m \in publishes
  /\ publishes' = publishes \ {m}
  /\ tasks' = [tasks EXCEPT ![m.w].pc = "done"]
  /\ UNCHANGED <<registryVars, extensions, mqttVars, clients, requests, brokerSubs, refused,
                 endCallbacks, inbox, writes, calls, handled, otherVars>>

\* JSON.parse(message.toString()) of the payload publishToMqtt serialised for write w
EventOf(w) ==
  [model |-> writes[w].model, operation |-> writes[w].operation,
   args |-> writes[w].queryArgs, result |-> JsonRoundTrip(writes[w].result),
   timestamp |-> tasks[w].sentAt]

\* 'message' on a subscriber client: handleMqttMessage(topic, message)
Deliver(id, m) ==
  /\ m \in inbox[id]
  /\ inbox' = [inbox EXCEPT ![id] = @ \ {m}]
  /\ LET p == clients[id].owner
         event == EventOf(m.w)
     IN /\ calls' = calls \o CallsOf(p, handleMqttMessage(p, m.topic, event), m.w,
                                     Undefined, event.result)
        /\ handled' = handled \cup {<<p, m.w>>}
  /\ UNCHANGED <<registryVars, extensions, mqttVars, clients, requests, brokerSubs, refused,
                 endCallbacks, publishes, writes, tasks, otherVars>>

\* The payloads another publisher can put on a topic: text that is not JSON, the
\* JSON value null, and a JSON object that has a model and an operation but no args.
Malformed == {"not json", "null", "{model, operation}"}
MaxForeign == 2

\* JSON.parse(message.toString()) and the destructuring of the event: <<>> when
\* one of them throws, else the event.
ParseEvent(message) ==
  IF message \in {"not json", "null"} THEN <<>>
  ELSE Some([model |-> "user", operation |-> "update", args |-> MissingArgs,
             result |-> Undefined])

\* The callbacks of subscribers.forEach whose promise rejects: matches threw in them
\* and nothing handles the promise forEach discards.
Rejections(p, topic, event) ==
  LET subscribers == TableGet(p, topic)
  IN IF IsNull(subscribers) THEN {}
     ELSE {c \in {Get(subscribers)[j] : j \in DOMAIN Get(subscribers)} :
             matches(c, event.args) = "throw"}

\* 'message' on a subscriber client with a payload of another publisher:
\* handleMqttMessage(topic, message), its try/catch included
DeliverForeign(id, topic, message) ==
  /\ Connected(id) /\ clients[id].role = "subscriber"
  /\ \E f \in brokerSubs[id] : TopicMatches(f, topic)
  /\ Len(received) < MaxForeign
  /\ LET p == clients[id].owner
         event == ParseEvent(message)
         invoked == IF IsNull(event) THEN <<>> ELSE handleMqttMessage(p, topic, Get(event))
         escaped == IF IsNull(event) THEN FALSE ELSE Rejections(p, topic, Get(event)) # {}
     IN /\ calls' = calls \o CallsOf(p, invoked, 0, Undefined, Undefined)
        /\ received' = Append(received, [proc |-> p, topic |-> topic, message |-> message,
                                         invoked |-> invoked, escaped |-> escaped])
  /\ UNCHANGED <<registryVars, extensions, mqttVars, brokerVars, writes, tasks, handled,
                 now, matchCall, disconnects>>

(* ------------------------------------------------------------------ *)
(* The subscription table of one process: registrations, the unregister*)
(* functions, re-configuration, disconnect, and the broker's answers   *)
(* ------------------------------------------------------------------ *)
TableOptions ==
  {ExtensionOptions(EmitBool(TRUE), Some(MqttConfig(TRUE, GoodUrl, <<>>))),
   ExtensionOptions(EmitBool(TRUE), Some(MqttConfig(FALSE, GoodUrl, <<>>)))}
\* The registrations made: <<model, config>>.
TableListeners == {<<"user", 1>>, <<"user", 3>>, <<"order", 1>>}

\* The application configures the extension while it has no publisher: at start and
\* after a disconnect.
Next ==
  \/ \E o \in TableOptions :
       mqttPublisher["A"] = NoClient /\ ListenerExtensionConfig("A", o)
  \/ \E l \in TableListeners : PrismaEventListener("A", l[1], l[2])
  \/ \E l \in TableListeners : Unregister("A", l[1], l[2])
  \/ /\ mqttPublisher["A"] # NoClient \/ mqttSubscriber["A"] # NoClient
     /\ DisconnectMqtt("A")
  \/ \E i \in ClientIds : ClientConnect(i)
  \/ \E i \in ClientIds, g \in BOOLEAN : BrokerAck(i, g)
  \/ \E cb \in endCallbacks : EndCallback(cb)

Spec == Init /\ [][Next]_vars

(* ------------------------------------------------------------------ *)
(* The bridge: two processes with allowRemote listeners on one broker  *)
(* ------------------------------------------------------------------ *)
BridgeOptions ==
  {ExtensionOptions(EmitBool(TRUE), Some(MqttConfig(TRUE, GoodUrl, <<>>)))}
BridgeModels == {"user"}
BridgeConfigs == {1}
BridgeWriteModels == {"User", "user"}

\* Each process configures the extension once and registers one listener.
NextBridge ==
  \/ \E p \in Procs, o \in BridgeOptions :
       extensions[p] = {} /\ ListenerExtensionConfig(p, o)
  \/ \E p \in Procs, m \in BridgeModels, c \in BridgeConfigs :
       listeners[p][m] = <<>> /\ PrismaEventListener(p, m, c)
  \/ \E i \in ClientIds : ClientConnect(i)
  \/ \E i \in ClientIds : BrokerAck(i, TRUE)
  \/ \E m \in BridgeWriteModels : \E ec \in extensions["A"] :
       Extension("A", ec, m, "update", Args("1", "ACTIVE"), EmitArgBool(TRUE), TRUE,
                 Result("1", "Date(t1)"))
  \/ \E w \in DOMAIN tasks : ResumeListener(w)
  \/ \E w \in DOMAIN tasks : ResumeLocal(w)
  \/ \E w \in DOMAIN tasks : ResumePublish(w)
  \/ \E m \in publishes : PublishAck(m)
  \/ \E i \in ClientIds : \E m \in inbox[i] : Deliver(i, m)

SpecBridge == Init /\ [][NextBridge]_vars


(* ------------------------------------------------------------------ *)
(* Emission: one process, its listeners and one intercepted operation  *)
(* ------------------------------------------------------------------ *)
NoUpdateMany ==
  [o \in Ops |-> IF o = "updateMany" THEN "false" ELSE "true"]

EmitOptions ==
  {ExtensionOptions(EmitBool(TRUE), Some(MqttConfig(TRUE, GoodUrl, <<>>))),
   ExtensionOptions(EmitFlags(NoUpdateMany), <<>>)}
EmitConfigs == {2, 3, 4, 5}
EmitOps == {"update", "updateMany"}
EmitArgs ==
  {EmitAbsent, EmitArgBool(TRUE), EmitArgBool(FALSE), EmitArgObj("true", "false"),
   EmitArgObj("false", "true"), EmitArgObj("true", Undefined)}

\* The process builds one extension per option set and runs one operation.
NextEmit ==
  \/ \E o \in EmitOptions :
       EmitConfigOf(o) \notin extensions["A"] /\ ListenerExtensionConfig("A", o)
  \/ \E c \in EmitConfigs : PrismaEventListener("A", "user", c)
  \/ \E i \in ClientIds : ClientConnect(i)
  \/ \E ec \in extensions["A"], op \in EmitOps, args \in ArgsPool, emit \in EmitArgs,
        queryOk \in BOOLEAN :
       /\ writes = <<>>
       /\ Extension("A", ec, "User", op, args, emit, queryOk, Result("1", "Date(t1)"))
  \/ \E w \in DOMAIN tasks : ResumeListener(w)
  \/ \E w \in DOMAIN tasks : ResumeLocal(w)
  \/ \E w \in DOMAIN tasks : ResumePublish(w)
  \/ \E m \in publishes : PublishAck(m)
  \/ \E m \in publishes : PublishError(m)

SpecEmit == Init /\ [][NextEmit]_vars

(* ------------------------------------------------------------------ *)
(* Registry: one process that registers and unregisters listeners,     *)
(* the same config object more than once included                      *)
(* ------------------------------------------------------------------ *)
\* Configs 7 and 15 are two objects of the same content.
RegistryConfigs == {7, 15}

\* The process also builds an extension without a broker and makes one write that
\* is emitted locally, whose dispatch the registrations interleave with.
NextRegistry ==
  \/ \E m \in {"user", "order"}, c \in RegistryConfigs : PrismaEventListener("A", m, c)
  \/ \E m \in {"user", "order"}, c \in RegistryConfigs : Unregister("A", m, c)
  \/ /\ extensions["A"] = {}
     /\ ListenerExtensionConfig("A", ExtensionOptions(EmitBool(TRUE), <<>>))
  \/ \E ec \in extensions["A"] :
       /\ writes = <<>>
       /\ Extension("A", ec, "user", "update", Args("1", "ACTIVE"), EmitArgObj("true", "false"),
                    TRUE, Result("1", "Date(t1)"))
  \/ \E w \in DOMAIN tasks : ResumeListener(w)
  \/ \E w \in DOMAIN tasks : ResumeLocal(w)

SpecRegistry == Init /\ [][NextRegistry]_vars

(* ------------------------------------------------------------------ *)
(* Time: one process that repeats a write and gets the events back     *)
(* ------------------------------------------------------------------ *)
InboundOptions ==
  {ExtensionOptions(EmitBool(TRUE), Some(MqttConfig(TRUE, GoodUrl, <<>>)))}

\* "Event IDs stored in memory for 5 seconds"
TTL == 5

\* A second passes.
Tick ==
  /\ now < MaxTime
  /\ now' = now + 1
  /\ UNCHANGED <<registryVars, extensions, mqttVars, brokerVars, writeVars, matchCall,
                 disconnects, received>>

NextTime ==
  \/ \E o \in InboundOptions :
       extensions["A"] = {} /\ ListenerExtensionConfig("A", o)
  \/ listeners["A"]["user"] = <<>> /\ PrismaEventListener("A", "user", 1)
  \/ \E i \in ClientIds : ClientConnect(i)
  \/ \E i \in ClientIds : BrokerAck(i, TRUE)
  \/ \E ec \in extensions["A"] :
       Extension("A", ec, "user", "update", Args("1", "ACTIVE"), EmitArgBool(TRUE), TRUE,
                 Result("1", "Date(t1)"))
  \/ \E w \in DOMAIN tasks : ResumeListener(w)
  \/ \E w \in DOMAIN tasks : ResumeLocal(w)
  \/ \E w \in DOMAIN tasks : ResumePublish(w)
  \/ \E m \in publishes : PublishAck(m)
  \/ \E i \in ClientIds : \E m \in inbox[i] : Deliver(i, m)
  \/ Tick

SpecTime == Init /\ [][NextTime]_vars

(* ------------------------------------------------------------------ *)
(* Inbound: one process that receives its own events back              *)
(* ------------------------------------------------------------------ *)
InboundConfigs == {1, 2, 3}

\* The process configures the extension once, registers each listener at most once
\* on "user" and updates users.
NextInbound ==
  \/ \E o \in InboundOptions :
       extensions["A"] = {} /\ ListenerExtensionConfig("A", o)
  \/ \E c \in InboundConfigs :
       /\ \A i \in DOMAIN listeners["A"]["user"] : listeners["A"]["user"][i] # c
       /\ PrismaEventListener("A", "user", c)
  \/ \E i \in ClientIds : ClientConnect(i)
  \/ \E i \in ClientIds : BrokerAck(i, TRUE)
  \/ \E ec \in extensions["A"] :
       Extension("A", ec, "user", "update", Args("1", "ACTIVE"), EmitArgBool(TRUE), TRUE,
                 Result("1", "Date(t1)"))
  \/ \E w \in DOMAIN tasks : ResumeListener(w)
  \/ \E w \in DOMAIN tasks : ResumeLocal(w)
  \/ \E w \in DOMAIN tasks : ResumePublish(w)
  \/ \E m \in publishes : PublishAck(m)
  \/ \E i \in ClientIds : \E m \in inbox[i] : Deliver(i, m)

SpecInbound == Init /\ [][NextInbound]_vars

(* ------------------------------------------------------------------ *)
(* Snapshot: one process that registers and unregisters allowRemote    *)
(* listeners while its own events come back                            *)
(* ------------------------------------------------------------------ *)
SnapshotConfigs == {1, 3}

NextSnapshot ==
  \/ \E o \in InboundOptions :
       extensions["A"] = {} /\ ListenerExtensionConfig("A", o)
  \/ \E c \in SnapshotConfigs :
       /\ <<"A", "user", c>> \notin unregisterFns
       /\ PrismaEventListener("A", "user", c)
  \/ \E c \in SnapshotConfigs :
       /\ \E j \in DOMAIN listeners["A"]["user"] : listeners["A"]["user"][j] = c
       /\ Unregister("A", "user", c)
  \/ \E i \in ClientIds : ClientConnect(i)
  \/ \E i \in ClientIds : BrokerAck(i, TRUE)
  \/ \E ec \in extensions["A"] :
       Extension("A", ec, "user", "update", Args("1", "ACTIVE"), EmitArgBool(TRUE), TRUE,
                 Result("1", "Date(t1)"))
  \/ \E w \in DOMAIN tasks : ResumeListener(w)
  \/ \E w \in DOMAIN tasks : ResumeLocal(w)
  \/ \E w \in DOMAIN tasks : ResumePublish(w)
  \/ \E m \in publishes : PublishAck(m)
  \/ \E i \in ClientIds : \E m \in inbox[i] : Deliver(i, m)

SpecSnapshot == Init /\ [][NextSnapshot]_vars

(* ------------------------------------------------------------------ *)
(* Malformed: one process with allowRemote listeners that receives     *)
(* payloads of another publisher                                       *)
(* ------------------------------------------------------------------ *)
NextMalformed ==
  \/ \E o \in InboundOptions :
       extensions["A"] = {} /\ ListenerExtensionConfig("A", o)
  \/ \E c \in SnapshotConfigs :
       /\ <<"A", "user", c>> \notin unregisterFns
       /\ PrismaEventListener("A", "user", c)
  \/ \E i \in ClientIds : ClientConnect(i)
  \/ \E i \in ClientIds : BrokerAck(i, TRUE)
  \/ \E i \in ClientIds, message \in Malformed :
       DeliverForeign(i, PublishTopic(MqttConfig(TRUE, GoodUrl, <<>>), "user", "update"),
                      message)

SpecMalformed == Init /\ [][NextMalformed]_vars

(* ------------------------------------------------------------------ *)
(* Register: one process that registers allowRemote listeners whatever *)
(* has become of its broker side, and emits locally                    *)
(* ------------------------------------------------------------------ *)
\* No broker configuration, a broker URL mqtt.connect throws on, a broker that works.
RegisterOptions ==
  {ExtensionOptions(EmitBool(TRUE), <<>>),
   ExtensionOptions(EmitBool(TRUE), Some(MqttConfig(TRUE, BadUrl, <<>>))),
   ExtensionOptions(EmitBool(TRUE), Some(MqttConfig(TRUE, GoodUrl, <<>>)))}

NextRegister ==
  \/ \E o \in RegisterOptions :
       extensions["A"] = {} /\ ListenerExtensionConfig("A", o)
  \/ \E c \in SnapshotConfigs :
       /\ <<"A", "user", c>> \notin unregisterFns
       /\ PrismaEventListener("A", "user", c)
  \/ \E c \in SnapshotConfigs :
       /\ \E j \in DOMAIN listeners["A"]["user"] : listeners["A"]["user"][j] = c
       /\ Unregister("A", "user", c)
  \/ \E i \in ClientIds : ClientConnect(i)
  \/ \E i \in ClientIds, granted \in BOOLEAN : BrokerAck(i, granted)
  \/ \E ec \in extensions["A"] :
       Extension("A", ec, "user", "update", Args("1", "ACTIVE"), EmitArgObj("true", "false"),
                 TRUE, Result("1", "Date(t1)"))
  \/ \E w \in DOMAIN tasks : ResumeListener(w)
  \/ \E w \in DOMAIN tasks : ResumeLocal(w)

SpecRegister == Init /\ [][NextRegister]_vars

(* ------------------------------------------------------------------ *)
(* Lazy: one process that registers listeners with and without         *)
(* allowRemote and publishes, with and without a configured clientId   *)
(* ------------------------------------------------------------------ *)
LazyOptions ==
  {ExtensionOptions(EmitBool(TRUE), Some(MqttConfigWithId(TRUE, GoodUrl, <<>>, "api-server-1"))),
   ExtensionOptions(EmitBool(TRUE), Some(MqttConfig(TRUE, GoodUrl, <<>>))),
   ExtensionOptions(EmitBool(TRUE), Some(MqttConfig(FALSE, GoodUrl, <<>>)))}
\* Listener 1 has allowRemote, listener 2 has not.
LazyConfigs == {1, 2}

NextLazy ==
  \/ \E o \in LazyOptions :
       extensions["A"] = {} /\ ListenerExtensionConfig("A", o)
  \/ \E c \in LazyConfigs :
       /\ <<"A", "user", c>> \notin unregisterFns
       /\ PrismaEventListener("A", "user", c)
  \/ \E i \in ClientIds : ClientConnect(i)
  \/ \E i \in ClientIds : BrokerAck(i, TRUE)
  \/ \E ec \in extensions["A"] :
       Extension("A", ec, "user", "update", Args("1", "ACTIVE"), EmitArgObj("false", "true"),
                 TRUE, Result("1", "Date(t1)"))
  \/ \E w \in DOMAIN tasks : ResumePublish(w)
  \/ \E m \in publishes : PublishAck(m)

SpecLazy == Init /\ [][NextLazy]_vars

(* ------------------------------------------------------------------ *)
(* Reinit: one process that initialises the extension any number of    *)
(* times, registers, disconnects, and emits locally                    *)
(* ------------------------------------------------------------------ *)
\* The options of the calls of listenerExtensionConfig: the same broker, with the
\* default topic prefix or with a prefix of the application.
ReinitOptions ==
  InboundOptions \cup {ExtensionOptions(EmitBool(TRUE), Some(MqttConfig(TRUE, GoodUrl, CustomPrefix)))}

\* The listener is registered once, after the broker was configured and before the
\* application disconnects; the application writes after its disconnect has resolved.
NextReinit ==
  \/ \E o \in ReinitOptions : ListenerExtensionConfig("A", o)
  \/ /\ <<"A", "user", 1>> \notin unregisterFns
     /\ ConfigEnabled("A")
     /\ disconnects = <<>>
     /\ PrismaEventListener("A", "user", 1)
  \/ /\ \E j \in DOMAIN listeners["A"]["user"] : listeners["A"]["user"][j] = 1
     /\ Unregister("A", "user", 1)
  \/ \E i \in ClientIds : ClientConnect(i)
  \/ \E i \in ClientIds : BrokerAck(i, TRUE)
  \/ DisconnectMqtt("A")
  \/ \E cb \in endCallbacks : EndCallback(cb)
  \/ \E ec \in extensions["A"] :
       /\ writes = <<>>
       /\ disconnects # <<>> /\ \A k \in DOMAIN disconnects : disconnects[k].resolved
       /\ Extension("A", ec, "user", "update", Args("1", "ACTIVE"), EmitArgObj("true", "false"),
                    TRUE, Result("1", "Date(t1)"))
  \/ \E w \in DOMAIN tasks : ResumeListener(w)
  \/ \E w \in DOMAIN tasks : ResumeLocal(w)

SpecReinit == Init /\ [][NextReinit]_vars

(* ------------------------------------------------------------------ *)
(* Disabled: a process whose broker configuration says enabled: false  *)
(* ------------------------------------------------------------------ *)
DisabledOptions ==
  {ExtensionOptions(EmitBool(TRUE), Some(MqttConfig(FALSE, GoodUrl, <<>>))),
   ExtensionOptions(EmitFlags(NoUpdateMany), Some(MqttConfig(FALSE, GoodUrl, CustomPrefix)))}
DisabledConfigs == {1, 2, 4}
DisabledEmit == {EmitArgBool(TRUE), EmitArgObj("false", "true")}

NextDisabled ==
  \/ \E o \in DisabledOptions :
       EmitConfigOf(o) \notin extensions["A"] /\ ListenerExtensionConfig("A", o)
  \/ \E c \in DisabledConfigs :
       /\ \A i \in DOMAIN listeners["A"]["user"] : listeners["A"]["user"][i] # c
       /\ PrismaEventListener("A", "user", c)
  \/ \E ec \in extensions["A"] : \E args \in ArgsPool : \E emit \in DisabledEmit :
       Extension("A", ec, "User", "update", args, emit, TRUE, Result("1", "Date(t1)"))
  \/ \E w \in DOMAIN tasks : ResumeListener(w)
  \/ \E w \in DOMAIN tasks : ResumeLocal(w)
  \/ \E w \in DOMAIN tasks : ResumePublish(w)

SpecDisabled == Init /\ [][NextDisabled]_vars

(* ------------------------------------------------------------------ *)
(* Publish: writes made before, during and after the publisher's life  *)
(* ------------------------------------------------------------------ *)
PublishOptions ==
  {ExtensionOptions(EmitBool(TRUE), Some(MqttConfig(TRUE, GoodUrl, <<>>))),
   ExtensionOptions(EmitFlags(NoUpdateMany), <<>>)}
PublishEmit == {EmitArgBool(TRUE), EmitArgObj("false", "true")}

\* The process configures the extension with or without a broker, registers the
\* listener 2 once, writes, and disconnects.
NextPublish ==
  \/ \E o \in PublishOptions :
       EmitConfigOf(o) \notin extensions["A"] /\ ListenerExtensionConfig("A", o)
  \/ listeners["A"]["user"] = <<>> /\ PrismaEventListener("A", "user", 2)
  \/ \E i \in ClientIds : ClientConnect(i)
  \/ /\ mqttPublisher["A"] # NoClient \/ mqttSubscriber["A"] # NoClient
     /\ DisconnectMqtt("A")
  \/ \E cb \in endCallbacks : EndCallback(cb)
  \/ \E ec \in extensions["A"] : \E emit \in PublishEmit :
       Extension("A", ec, "User", "update", Args("1", "ACTIVE"), emit, TRUE,
                 Result("1", "Date(t1)"))
  \/ \E w \in DOMAIN tasks : ResumeLocal(w)
  \/ \E w \in DOMAIN tasks : ResumePublish(w)
  \/ \E m \in publishes : PublishAck(m)
  \/ \E m \in publishes : PublishError(m)

SpecPublish == Init /\ [][NextPublish]_vars

(* ------------------------------------------------------------------ *)
(* Disconnect: processes that connect, subscribe and disconnect        *)
(* ------------------------------------------------------------------ *)
NextDisconnect ==
  \/ \E p \in Procs : \E o \in InboundOptions :
       extensions[p] = {} /\ ListenerExtensionConfig(p, o)
  \/ \E p \in Procs :
       listeners[p]["user"] = <<>> /\ PrismaEventListener(p, "user", 1)
  \/ \E i \in ClientIds : ClientConnect(i)
  \/ \E i \in ClientIds : BrokerAck(i, TRUE)
  \/ \E p \in Procs : DisconnectMqtt(p)
  \/ \E cb \in endCallbacks : EndCallback(cb)

SpecDisconnect == Init /\ [][NextDisconnect]_vars

(* ------------------------------------------------------------------ *)
(* matches on its own: a config and an args value, and its result      *)
(* ------------------------------------------------------------------ *)
MatchConfigs == {1, 2, 4, 6, 7, 8, 9, 10, 11, 12, 13, 14}
MatchRoles == {Undefined, "admin"}
MatchIds == {Undefined, "1", "3", "Date(t1)", OtherDate}
MatchStatuses == {Undefined, "ACTIVE", "PENDING"}
MatchArgs ==
  {[where |-> w, data |-> d] :
     w \in {NoWhere} \cup {Where(id) : id \in MatchIds},
     d \in {NoData} \cup {DataWith(st, r) : st \in MatchStatuses, r \in MatchRoles}}

InitMatches ==
  /\ InitProgram
  /\ matchCall \in {Some([config |-> c, args |-> a, result |-> "none"]) :
                      c \in MatchConfigs, a \in MatchArgs}

\* matches(config, args) returns.
Matches ==
  /\ Get(matchCall).result = "none"
  /\ matchCall' = Some([Get(matchCall) EXCEPT
                          !.result = matches(Get(matchCall).config, Get(matchCall).args)])
  /\ UNCHANGED <<registryVars, extensions, mqttVars, brokerVars, writeVars, now, disconnects,
                 received>>

NextMatches == Matches

SpecMatches == InitMatches /\ [][NextMatches]_vars

(* ------------------------------------------------------------------ *)
(* Properties of the bridge                                            *)
(* ------------------------------------------------------------------ *)
CallsFor(p, w) == {k \in DOMAIN calls : calls[k].proc = p /\ calls[k].w = w}

CallCount(p, w, c) == Cardinality({k \in CallsFor(p, w) : calls[k].cfg = c})

\* C1: once process B's message handler has run for the event of a write of
\* process A, while B has an allowRemote listener registered for the entity type,
\* B's listener has been invoked with source "remote" and with the result that
\* A's local listener received.
C1_RemoteListenerInvoked ==
  \A w \in DOMAIN writes :
    (/\ writes[w].proc = "A"
     /\ <<"B", w>> \in handled
     /\ listeners["A"]["user"] # <<>>
     /\ listeners["B"]["user"] # <<>>)
    => \E k \in CallsFor("B", w) : /\ calls[k].source = "remote"
                                   /\ calls[k].result = writes[w].result

\* C2: when the event of a write has come back to the process that published it,
\* no listener of that process has been invoked for the inbound copy: every
\* invocation for that write in that process has source "local", and no config is
\* invoked more than once.
C2_LoopbackSuppressed ==
  \A w \in DOMAIN writes :
    <<writes[w].proc, w>> \in handled
    => /\ \A k \in CallsFor(writes[w].proc, w) : calls[k].source = "local"
       /\ \A c \in Configs : CallCount(writes[w].proc, w, c) <= 1

\* A write of A whose event came back to A, with A's allowRemote listener invoked
\* once, locally.
C2_Witness ==
  \E w \in DOMAIN writes :
    /\ writes[w].proc = "A"
    /\ <<"A", w>> \in handled
    /\ CallCount("A", w, 1) = 1
    /\ ~IsNull(mqttSubscriptions["A"][SubscribeTopic(Get(mqttConfig["A"]), "user")])


(* ------------------------------------------------------------------ *)
(* Properties of the subscription table                                *)
(* ------------------------------------------------------------------ *)
\* The broker holds a subscription to topic for a subscriber client of p.
BrokerHolds(p, topic) ==
  \E i \in ClientIds : /\ clients[i].owner = p
                       /\ clients[i].role = "subscriber"
                       /\ topic \in brokerSubs[i]

\* The table of p holds an entry for topic with a non-empty listener set.
HasListeners(p, topic) ==
  ~IsNull(mqttSubscriptions[p][topic]) /\ Get(mqttSubscriptions[p][topic]) # <<>>

\* Every subscribe/unsubscribe of p has been answered and no client of p is closing.
Settled(p) ==
  /\ \A i \in ClientIds : clients[i].owner = p => requests[i] = <<>>
  /\ \A cb \in endCallbacks : cb.proc # p

Sends(p, op, topic) ==
  \E i \in ClientIds :
    /\ clients'[i].owner = p
    /\ Len(requests'[i]) > Len(requests[i])
    /\ requests'[i][Len(requests'[i])] = [op |-> op, topic |-> topic]

\* C4: a registration of an allowRemote listener (broker enabled) that finds no
\* entry for its topic sends exactly one SUBSCRIBE, for {prefix}/{model}/# with the
\* default prefix prisma/events, and a registration that finds the entry only adds
\* its config to the set and sends nothing. (A subscriber that is closing refuses
\* the subscribe call: the entry is made and no packet leaves.)
C4_OneSubscribePerTopic ==
  [][\A m \in {"user", "order"}, c \in {1, 3} :
       (PrismaEventListener("A", m, c) /\ CfgDef[c].allowRemote /\ ConfigEnabled("A")
          /\ ~ConnectThrows(Get(mqttConfig["A"]).brokerUrl))
       => LET t == <<"prisma", "events", m, "#">>
              sub == mqttSubscriber'["A"]
          IN IF IsNull(mqttSubscriptions["A"][t])
             THEN /\ requests'[sub] =
                       (IF mqttSubscriber["A"] = NoClient THEN <<>> ELSE requests[sub])
                         \o (IF clients'[sub].state = "ending" THEN <<>>
                             ELSE <<[op |-> "subscribe", topic |-> t]>>)
                  /\ mqttSubscriptions'["A"] =
                       [mqttSubscriptions["A"] EXCEPT ![t] = <<<<c>>>>]
             ELSE /\ requests' = requests
                  /\ mqttSubscriptions'["A"] =
                       [mqttSubscriptions["A"] EXCEPT ![t] = <<SetAdd(Get(@), c)>>]]_vars

\* Two allowRemote listeners share the entry of prisma/events/user/#, whose one
\* SUBSCRIBE the broker has granted; nothing else was sent.
C4_Witness ==
  /\ mqttSubscriber["A"] # NoClient
  /\ Len(Get(mqttSubscriptions["A"][<<"prisma", "events", "user", "#">>] \o <<<<>>>>)) = 2
  /\ requests[mqttSubscriber["A"]] = <<>>
  /\ brokerSubs[mqttSubscriber["A"]] = {<<"prisma", "events", "user", "#">>}

Range(seq) == {seq[i] : i \in DOMAIN seq}

\* C5: unregistering an allowRemote listener that is in its topic's set sends an
\* UNSUBSCRIBE and deletes the entry exactly when no allowRemote listener for that
\* entity type remains registered; otherwise nothing is sent and the entry keeps
\* the other listeners.
C5_UnsubscribeExactlyOnLast ==
  [][\A m \in {"user", "order"}, c \in {1, 3} :
       (/\ Unregister("A", m, c)
        /\ CfgDef[c].allowRemote
        /\ ConfigEnabled("A")
        /\ c \in Range(listeners["A"][m])
        /\ ~IsNull(mqttSubscriptions["A"][SubscribeTopic(Get(mqttConfig["A"]), m)])
        /\ c \in Range(Get(mqttSubscriptions["A"][SubscribeTopic(Get(mqttConfig["A"]), m)])))
       => LET t == SubscribeTopic(Get(mqttConfig["A"]), m)
              remaining == {l \in Range(listeners'["A"][m]) : CfgDef[l].allowRemote}
          IN IF remaining = {}
             THEN /\ IsNull(mqttSubscriptions'["A"][t])
                  /\ (clients[mqttSubscriber["A"]].state # "ending"
                        => Sends("A", "unsubscribe", t))
             ELSE /\ ~IsNull(mqttSubscriptions'["A"][t])
                  /\ Get(mqttSubscriptions'["A"][t])
                       = SetDelete(Get(mqttSubscriptions["A"][t]), c)
                  /\ requests' = requests]_vars

(* ------------------------------------------------------------------ *)
(* Properties of emission                                             *)
(* ------------------------------------------------------------------ *)
\* The local dispatch of write w has left its loop.
DispatchOver(w) == tasks[w].dispatched /\ tasks[w].pc # "awaitListener"

\* Listener c was invoked for write w in its own process.
Invoked(w, c) == CallCount(writes[w].proc, w, c) >= 1

\* c passes the tests executeLocalListeners makes before invoking it locally.
Eligible(c, args) == ~CfgDef[c].remoteOnly /\ matches(c, args) = "true"

\* C6: a listener registered with remoteOnly is never invoked by a local dispatch,
\* that is with source "local" or with no source at all.
C6_RemoteOnlyNeverLocal ==
  \A k \in DOMAIN calls :
     CfgDef[calls[k].cfg].remoteOnly => calls[k].source \notin {"local", Undefined}

\* A local dispatch ran to its end over an array holding a remoteOnly listener and
\* invoked another listener of that array.
C6_Witness ==
  \E w \in DOMAIN tasks :
     /\ tasks[w].pc \in {"awaitLocal", "awaitPublish", "awaitPublishAck", "done"}
     /\ \E i \in DOMAIN tasks[w].arr : CfgDef[tasks[w].arr[i]].remoteOnly
     /\ CallsFor(writes[w].proc, w) # {}

\* C7: when a matching listener's callback throws or returns a rejected promise, every
\* later matching listener of the same entity type is still invoked in that dispatch,
\* and the callback's failure is not what the dispatch fails with.
C7_ListenerIsolation ==
  \A w \in DOMAIN tasks :
     DispatchOver(w) =>
        \A i \in DOMAIN tasks[w].arr :
           ( /\ Eligible(tasks[w].arr[i], writes[w].args)
             /\ CfgDef[tasks[w].arr[i]].listener \in {"throw", "reject"}
             /\ Invoked(w, tasks[w].arr[i]) )
           => /\ tasks[w].pc = "rejected"
                    => matches(tasks[w].arr[tasks[w].idx], writes[w].args) = "throw"
              /\ \A j \in DOMAIN tasks[w].arr :
                    (i < j /\ Eligible(tasks[w].arr[j], writes[w].args))
                    => Invoked(w, tasks[w].arr[j])

\* C8: an intercepted operation whose query succeeds returns exactly the query's
\* result to its caller, whatever becomes of its listeners and of its publish.
C8_CallerGetsResult ==
  \A w \in DOMAIN writes :
     writes[w].queryOk =>
        /\ writes[w].outcome = "returned"
        /\ writes[w].value = writes[w].result

\* A query succeeded, its result was returned, and a listener invoked for it failed
\* or its publish was refused for want of a connected publisher.
C8_Witness ==
  \E w \in DOMAIN writes :
     /\ writes[w].queryOk
     /\ writes[w].outcome = "returned"
     /\ \/ \E k \in CallsFor(writes[w].proc, w) :
              CfgDef[calls[k].cfg].listener \in {"throw", "reject"}
        \/ tasks[w].pc = "awaitPublish"

\* What the `emit` value of a call asks for.
WantsLocal(emit) ==
  \/ emit.kind = "bool" /\ emit.b
  \/ emit.kind = "object" /\ emit.local = "true"

WantsRemote(emit) ==
  \/ emit.kind = "bool" /\ emit.b
  \/ emit.kind = "object" /\ emit.remote = "true"

\* The emission of write w has nothing left to do.
EmissionOver(w) == tasks[w].pc \in {"none", "done", "rejected"}

\* C9: for a successful write carrying `emit`, the local listeners are dispatched
\* exactly when its local flag is true and a publish is attempted exactly when its
\* remote flag is true; `emit: true` asks for both and `emit: false` for neither.
C9_EmitFlagsHonoured ==
  \A w \in DOMAIN writes :
     (writes[w].queryOk /\ writes[w].emit.kind # "absent" /\ EmissionOver(w)) =>
        /\ tasks[w].dispatched = WantsLocal(writes[w].emit)
        /\ tasks[w].publishCalled = WantsRemote(writes[w].emit)

\* Write w set its listeners or its publish going.
Emitted(w) == tasks[w].dispatched \/ tasks[w].publishCalled

\* C10: the extension's options switch emission per operation: an operation whose
\* emitOn flag is false triggers no listener and no publish, and an operation whose
\* flag is true emits when its call asks for it.
C10_PerOperationOptions ==
  \A w \in DOMAIN writes :
     writes[w].queryOk =>
        /\ ~writes[w].enabled => (~Emitted(w) /\ CallsFor(writes[w].proc, w) = {})
        /\ (writes[w].enabled /\ writes[w].emit = EmitArgBool(TRUE)) => Emitted(w)

C12_OnlyAllowRemoteFromBroker ==
  \A k \in DOMAIN calls :
     calls[k].source # "local" => CfgDef[calls[k].cfg].allowRemote

\* The message handler has run for a write's event in a process that has, for that
\* entity type, a listener without allowRemote (invoked locally for the write) and a
\* subscription entry.
C12_Witness ==
  \E w \in DOMAIN writes :
     /\ <<"A", w>> \in handled
     /\ HasListeners("A", <<"prisma", "events", "user", "#">>)
     /\ \E k \in CallsFor("A", w) :
           ~CfgDef[calls[k].cfg].allowRemote /\ calls[k].source = "local"
     /\ \E i \in DOMAIN listeners["A"]["user"] :
           ~CfgDef[listeners["A"]["user"][i]].allowRemote

(* ------------------------------------------------------------------ *)
(* Properties of a disabled broker configuration                       *)
(* ------------------------------------------------------------------ *)
\* C13: with the broker configuration enabled: false no client is ever created for
\* the publisher or the subscriber, no write sends a PUBLISH packet (its publish call
\* returns at once), registering allowRemote listeners creates no subscription entry
\* and sends no SUBSCRIBE, and a local dispatch that has left its loop has invoked
\* every listener of its array that matches and is not remoteOnly.
C13_DisabledIsLocalOnly ==
  /\ \A i \in ClientIds : clients[i] = FreeClient /\ requests[i] = <<>> /\ inbox[i] = {}
  /\ \A p \in Procs : mqttPublisher[p] = NoClient /\ mqttSubscriber[p] = NoClient
  /\ \A p \in Procs : \A t \in SubTopics : mqttSubscriptions[p][t] = <<>>
  /\ publishes = {}
  /\ \A w \in DOMAIN tasks :
        /\ tasks[w].pc # "awaitPublishAck"
        /\ DispatchOver(w) =>
             \A i \in DOMAIN tasks[w].arr :
                Eligible(tasks[w].arr[i], writes[w].args) => Invoked(w, tasks[w].arr[i])

\* A disabled configuration was supplied, an allowRemote listener is registered, and a
\* write with local and remote emission has finished: its listener was invoked and
\* its publish was called.
C13_Witness ==
  /\ extensions["A"] # {}
  /\ \E i \in DOMAIN listeners["A"]["user"] : CfgDef[listeners["A"]["user"][i]].allowRemote
  /\ \E w \in DOMAIN tasks :
        /\ tasks[w].pc = "done"
        /\ tasks[w].local /\ tasks[w].remote /\ tasks[w].publishCalled
        /\ \E k \in CallsFor("A", w) : CfgDef[calls[k].cfg].allowRemote

(* ------------------------------------------------------------------ *)
(* Properties of publish                                               *)
(* ------------------------------------------------------------------ *)
\* A broker configuration was supplied and the publisher's connection is established.
Established(p) == ConfigEnabled(p) /\ Connected(mqttPublisher[p])

\* The step in which runListeners of write w calls publishToMqtt.
PublishCalledNow(w) ==
  /\ w \in DOMAIN tasks'
  /\ tasks'[w].publishCalled
  /\ w \in DOMAIN tasks => ~tasks[w].publishCalled

\* C14: a publish called while no broker configuration was supplied or while the
\* publisher's connection is not established sends and queues nothing, returns at
\* once (its await is all that is left of the task, which waits for no broker
\* acknowledgement and is not rejected), and the write is returned to its caller.
C14_PublishNoOpWhenNotEstablished ==
  [][\A w \in 1..MaxWrites :
       (PublishCalledNow(w) /\ ~Established(writes'[w].proc)) =>
          /\ publishes' = publishes
          /\ tasks'[w].pc = "awaitPublish"
          /\ writes'[w].outcome = "returned"]_vars

\* After a broker was configured and disconnected (publisher and configuration are
\* null again, every client closed), a write's publish has returned without a packet.
C14_Witness ==
  /\ EmitConfigOf(ExtensionOptions(EmitBool(TRUE), Some(MqttConfig(TRUE, GoodUrl, <<>>))))
        \in extensions["A"]
  /\ mqttPublisher["A"] = NoClient /\ IsNull(mqttConfig["A"])
  /\ \A i \in ClientIds : clients[i] = FreeClient
  /\ publishes = {}
  /\ \E w \in DOMAIN tasks : tasks[w].pc = "awaitPublish" /\ tasks[w].publishCalled
  /\ \A w \in DOMAIN tasks : tasks[w].pc \in {"awaitPublish", "awaitLocal"}

(* ------------------------------------------------------------------ *)
(* Properties of the topics                                            *)
(* ------------------------------------------------------------------ *)
\* C15: the event of a write is published to prefix/E/O, where E is the name under
\* which the write's listeners are looked up and allowRemote listeners subscribe, so
\* that the subscription prefix/E/# covers the publish topic and the subscription of
\* no other entity type does.
C15_PublishTopicIsListenerTopic ==
  \A m \in publishes :
     LET w == m.w
         config == Get(mqttConfig[writes[w].proc])
         E == tasks[w].key
     IN /\ m.topic = PublishTopic(config, E, writes[w].operation)
        /\ TopicMatches(SubscribeTopic(config, E), m.topic)
        /\ \A other \in ModelKeys \ {E} :
              ~TopicMatches(SubscribeTopic(config, other), m.topic)

(* ------------------------------------------------------------------ *)
(* Properties of repeated content                                      *)
(* ------------------------------------------------------------------ *)
\* Writes v and w carry the same event content.
SameContent(v, w) ==
  /\ writes[v].model = writes[w].model
  /\ writes[v].operation = writes[w].operation
  /\ writes[v].args = writes[w].args
  /\ writes[v].result = writes[w].result

\* Every event of w's content that process p has published, w's included, was
\* published more than TTL ago.
RecordExpired(p, w) ==
  \A v \in DOMAIN writes :
     (writes[v].proc = p /\ SameContent(v, w) /\ tasks[v].sentAt >= 0)
        => now - tasks[v].sentAt > TTL

\* C16: when a process has published the same content twice and the second copy comes
\* back to it more than TTL after that content was last recorded, the copy is
\* dispatched: every allowRemote listener of the entity type that matches is invoked
\* for it with source "remote".
C16_DispatchedAfterTtl ==
  [][\A i \in ClientIds : \A m \in inbox[i] :
       LET p == clients[i].owner
           w == m.w
       IN (/\ m \notin inbox'[i]
           /\ writes[w].proc = p
           /\ \E v \in 1..(w - 1) : writes[v].proc = p /\ SameContent(v, w)
                                      /\ tasks[v].sentAt >= 0
           /\ RecordExpired(p, w))
          => \A j \in DOMAIN listeners[p][tasks[w].key] :
                LET c == listeners[p][tasks[w].key][j]
                IN (CfgDef[c].allowRemote /\ matches(c, writes[w].args) = "true")
                   => \E k \in DOMAIN calls' \ DOMAIN calls :
                         /\ calls'[k].proc = p /\ calls'[k].cfg = c /\ calls'[k].w = w
                         /\ calls'[k].source = "remote"]_vars

(* ------------------------------------------------------------------ *)
(* Properties of disconnect                                            *)
(* ------------------------------------------------------------------ *)
\* The end callbacks a disconnectMqtt call of p has to wait for: one for each
\* connection p holds.
OpenedBy(p) ==
  (IF mqttPublisher[p] = NoClient THEN {}
   ELSE {[proc |-> p, role |-> "publisher", client |-> mqttPublisher[p]]})
  \cup (IF mqttSubscriber[p] = NoClient THEN {}
        ELSE {[proc |-> p, role |-> "subscriber", client |-> mqttSubscriber[p]]})

\* C17: the promise of a disconnect call is resolved at the call when the process
\* holds neither connection, and otherwise waits for the close callback of each
\* connection it holds; from then on it waits for exactly those of them that have not
\* fired, every one of which belongs to a client still closing, and it is resolved if
\* and only if none is left.
C17_DisconnectResolution ==
  [][/\ Len(disconnects') > Len(disconnects) =>
          LET d == disconnects'[Len(disconnects')]
          IN /\ d.waits = OpenedBy(d.proc)
             /\ d.resolved <=> (mqttPublisher[d.proc] = NoClient
                                /\ mqttSubscriber[d.proc] = NoClient)
     /\ \A k \in DOMAIN disconnects :
          disconnects'[k].waits = disconnects[k].waits \cap endCallbacks'
     /\ \A k \in DOMAIN disconnects' :
          /\ disconnects'[k].resolved <=> disconnects'[k].waits = {}
          /\ \A cb \in disconnects'[k].waits : clients'[cb.client].state = "ending"]_vars

\* A disconnect call made with both connections open: the publisher has reported
\* closed, the subscriber is still closing, and the promise is not resolved.
C17_Witness ==
  \E k \in DOMAIN disconnects :
     LET p == disconnects[k].proc
     IN /\ ~disconnects[k].resolved
        /\ extensions[p] # {}
        /\ mqttPublisher[p] = NoClient
        /\ mqttSubscriber[p] # NoClient
        /\ disconnects[k].waits =
             {[proc |-> p, role |-> "subscriber", client |-> mqttSubscriber[p]]}

(* ------------------------------------------------------------------ *)
(* Properties of the arguments                                         *)
(* ------------------------------------------------------------------ *)
\* C18: the object the operation executor gets, which is the one handed to
\* runListeners and so to the listeners and into the envelope, has no key `emit` and
\* has the caller's other fields unchanged.
C18_EmitStripped ==
  /\ \A w \in DOMAIN writes :
        /\ writes[w].queryArgs.emit = EmitAbsent
        /\ writes[w].queryArgs.where = writes[w].args.where
        /\ writes[w].queryArgs.data = writes[w].args.data
  /\ \A m \in publishes : EventOf(m.w).args.emit = EmitAbsent

\* A write whose args carried `emit` was queried, dispatched to a listener and
\* published.
C18_Witness ==
  \E m \in publishes :
     /\ writes[m.w].emit # EmitAbsent
     /\ writes[m.w].queryOk
     /\ CallsFor(writes[m.w].proc, m.w) # {}

(* ------------------------------------------------------------------ *)
(* Properties of matches                                               *)
(* ------------------------------------------------------------------ *)
\* matches has returned for the call.
Returned == ~IsNull(matchCall) /\ Get(matchCall).result # "none"

\* C19: for a config that declares neither a where filter nor a data filter, matches
\* returns true for every args, those without where and without data included.
C19_NoFilterMatchesAll ==
  (/\ Returned
   /\ CfgDef[Get(matchCall).config].where = NoFilter
   /\ CfgDef[Get(matchCall).config].data = NoFilter)
     => Get(matchCall).result = "true"

\* matches returned true for a config without filters and args that have neither
\* where nor data.
C19_Witness ==
  /\ Returned
  /\ CfgDef[Get(matchCall).config].where = NoFilter
  /\ CfgDef[Get(matchCall).config].data = NoFilter
  /\ Get(matchCall).args = [where |-> NoWhere, data |-> NoData]
  /\ Get(matchCall).result = "true"

\* Every condition of the filter is an array.
AllArrays(filter) == \A i \in DOMAIN filter : filter[i][2].kind = "arr"

\* Each field's candidate, read from obj when obj is there, is a member of the
\* field's array.
AllMembers(filter, obj) ==
  \A i \in DOMAIN filter :
     (IF obj.present THEN obj[filter[i][1]] ELSE Undefined) \in filter[i][2].s

\* C20: for a config whose field conditions are arrays, matches returns true if and
\* only if, for each of them, the candidate read from args.where[field] (or
\* args.data[field]) is a member of the array.
C20_ArrayIsMembership ==
  LET c == CfgDef[Get(matchCall).config]
      args == Get(matchCall).args
  IN (/\ Returned
      /\ AllArrays(c.where) /\ AllArrays(c.data)
      /\ c.where # NoFilter \/ c.data # NoFilter)
        => (Get(matchCall).result = "true"
              <=> (AllMembers(c.where, args.where) /\ AllMembers(c.data, args.data)))

\* matches returned true for data filter status in [ACTIVE, BLOCKED] and status ACTIVE.
C20_Witness ==
  /\ Returned
  /\ Get(matchCall).config = 2
  /\ Get(matchCall).args.data = Data("ACTIVE")
  /\ Get(matchCall).result = "true"

\* Every condition of the filter is a scalar value.
AllScalars(filter) == \A i \in DOMAIN filter : filter[i][2].kind = "val"

\* Each field's candidate, read from obj when obj is there, is structurally equal to
\* the field's condition.
AllDeepEqual(filter, obj) ==
  \A i \in DOMAIN filter :
     Structure(IF obj.present THEN obj[filter[i][1]] ELSE Undefined)
        = Structure(filter[i][2].v)

\* C21: for a config whose field conditions are scalar values, matches returns true
\* if and only if each candidate is structurally equal to its condition (and so
\* false when a candidate is absent), structured values such as dates included.
C21_ScalarIsDeepEqual ==
  LET c == CfgDef[Get(matchCall).config]
      args == Get(matchCall).args
  IN (/\ Returned
      /\ AllScalars(c.where) /\ AllScalars(c.data)
      /\ c.where # NoFilter \/ c.data # NoFilter)
        => (Get(matchCall).result = "true"
              <=> (AllDeepEqual(c.where, args.where) /\ AllDeepEqual(c.data, args.data)))

\* The outcome of the condition of entry i of filter for the candidate read from obj.
CondOf(filter, obj, i) ==
  FieldCond(filter[i][2], IF obj.present THEN obj[filter[i][1]] ELSE Undefined)

\* The outcomes of all the declared conditions of config c for args, as a set.
Outcomes(c, args) ==
  {CondOf(c.where, args.where, i) : i \in DOMAIN c.where}
    \cup {CondOf(c.data, args.data, i) : i \in DOMAIN c.data}

\* The sentinel true passes exactly when the candidate is defined.
SentinelIsDefined(filter, obj) ==
  \A i \in DOMAIN filter :
     filter[i][2].kind = "true" =>
        (CondOf(filter, obj, i) = "true"
           <=> (obj.present /\ obj[filter[i][1]] # Undefined))

KeyOf(topic) == SubSeq(topic, 1, Len(topic) - 1) \o <<"#">>

\* The set the table of p holds for the key of topic.
TableSet(p, topic) ==
  IF KeyOf(topic) \in SubTopics /\ ~IsNull(mqttSubscriptions[p][KeyOf(topic)])
  THEN Range(Get(mqttSubscriptions[p][KeyOf(topic)]))
  ELSE {}

\* C23: when the handler runs for a well-formed envelope on {prefix}/{E}/{op} while
\* the table holds the set S for {prefix}/{E}/#, it invokes exactly the configs of S
\* whose filters match the envelope's args, once each, and no other config.
C23_InboundInvokesMatchingOfS ==
  [][\A i \in ClientIds : \A m \in inbox[i] :
       LET p == clients[i].owner
           S == TableSet(p, m.topic)
           new == (DOMAIN calls') \ (DOMAIN calls)
       IN (m \notin inbox'[i] /\ <<p, m.w>> \in handled')
          => /\ \A c \in S :
                  matches(c, writes[m.w].queryArgs) = "true"
                    => Cardinality({k \in new : calls'[k].cfg = c /\ calls'[k].proc = p}) = 1
             /\ \A k \in new :
                  /\ calls'[k].cfg \in S
                  /\ matches(calls'[k].cfg, writes[m.w].queryArgs) = "true"]_vars

(* ------------------------------------------------------------------ *)
(* Properties of the unregister function                               *)
(* ------------------------------------------------------------------ *)
\* arr without its element at index i.
RemoveAt(arr, i) == SubSeq(arr, 1, i - 1) \o SubSeq(arr, i + 1, Len(arr))

\* C24: the unregister function removes exactly one registration of its config from
\* the array of its entity type, also when a structurally identical config or the
\* same config object is registered a second time, and leaves the arrays of the
\* other entity types as they were.
C24_UnregisterRemovesOne ==
  [][\A m \in ModelKeys, c \in RegistryConfigs :
       (Unregister("A", m, c) /\ c \in Range(listeners["A"][m]))
          => /\ \E i \in DOMAIN listeners["A"][m] :
                  /\ listeners["A"][m][i] = c
                  /\ listeners'["A"][m] = RemoveAt(listeners["A"][m], i)
             /\ \A o \in ModelKeys \ {m} : listeners'["A"][o] = listeners["A"][o]]_vars

C26_MalformedDropped ==
  [][received' # received
       => /\ received'[Len(received')].invoked = <<>>
          /\ ~received'[Len(received')].escaped
          /\ calls' = calls
          /\ UNCHANGED <<mqttSubscriber, mqttSubscriptions, clients, brokerSubs, listeners>>]_vars

\* An envelope without args was handled by a process whose table holds a listener
\* for the entity type of the topic, and a text that is not JSON was handled too.
C26_Witness ==
  /\ \E k \in DOMAIN received :
        /\ received[k].message = "{model, operation}"
        /\ HasListeners(received[k].proc, KeyOf(received[k].topic))
  /\ \E k \in DOMAIN received : received[k].message = "not json"

Pos(arr, c) == CHOOSE i \in DOMAIN arr : arr[i] = c

\* Calls k1 and k2 of the log next belong to one dispatch.
SameDispatch(k1, k2) ==
  /\ calls'[k1].proc = calls'[k2].proc
  /\ calls'[k1].w = calls'[k2].w
  /\ calls'[k1].source = calls'[k2].source

C29_RegistrationWhateverTheBroker ==
  [][/\ \A c \in SnapshotConfigs :
          /\ (<<"A", "user", c>> \in unregisterFns' /\ <<"A", "user", c>> \notin unregisterFns)
                => listeners'["A"]["user"] = Append(listeners["A"]["user"], c)
          /\ Unregister("A", "user", c)
                => \A j \in DOMAIN listeners'["A"]["user"] : listeners'["A"]["user"][j] # c
     /\ \A w \in DOMAIN tasks' :
          (tasks'[w].dispatched /\ tasks'[w].pc \in {"awaitLocal", "done"})
             => \A j \in DOMAIN tasks'[w].arr :
                   Eligible(tasks'[w].arr[j], writes'[w].queryArgs)
                     => \E k \in DOMAIN calls' :
                           /\ calls'[k].w = w /\ calls'[k].cfg = tasks'[w].arr[j]
                           /\ calls'[k].source = "local"]_vars

\* With a broker configuration on whose URL mqtt.connect throws, so that there is no
\* subscriber and no table entry, an allowRemote listener is registered and a local
\* dispatch has invoked it.
C29_Witness ==
  /\ ConfigEnabled("A")
  /\ mqttSubscriber["A"] = NoClient
  /\ \A t \in SubTopics : IsNull(mqttSubscriptions["A"][t])
  /\ \E j \in DOMAIN listeners["A"]["user"] : listeners["A"]["user"][j] = 1
  /\ <<"A", "user", 1>> \in unregisterFns
  /\ \E k \in DOMAIN calls : calls[k].cfg = 1 /\ calls[k].source = "local"

(* ------------------------------------------------------------------ *)
(* Properties of the subscriber connection                             *)
(* ------------------------------------------------------------------ *)
\* Config c is being registered in process A by this step.
Registering(c) ==
  <<"A", "user", c>> \in unregisterFns' /\ <<"A", "user", c>> \notin unregisterFns

\* C30: the subscriber connection is made lazily: the registration of an allowRemote
\* listener under an enabled broker configuration leaves the process with one, no
\* other step creates one, and the one created is a client of its own, not the
\* publisher's, whose identity is {clientId}-subscriber when a clientId is
\* configured; registering listeners without allowRemote and publishing create none.
C30_SubscriberIsLazy ==
  [][/\ \A c \in LazyConfigs :
          (Registering(c) /\ CfgDef[c].allowRemote /\ ConfigEnabled("A"))
             => mqttSubscriber'["A"] # NoClient
     /\ mqttSubscriber'["A"] # mqttSubscriber["A"]
          => /\ mqttSubscriber["A"] = NoClient
             /\ ConfigEnabled("A")
             /\ \E c \in LazyConfigs : Registering(c) /\ CfgDef[c].allowRemote
             /\ mqttSubscriber'["A"] # mqttPublisher'["A"]
             /\ clients[mqttSubscriber'["A"]] = FreeClient
             /\ clients'[mqttSubscriber'["A"]].role = "subscriber"
             /\ Get(mqttConfig["A"]).clientId # Undefined
                  => clients'[mqttSubscriber'["A"]].clientId
                       = <<Get(mqttConfig["A"]).clientId, "-subscriber">>
     /\ \A i \in ClientIds :
          clients'[i].role = "subscriber" => i = mqttSubscriber'["A"]]_vars

\* With a configured clientId, the process registered a listener without allowRemote
\* and published a write while it had no subscriber, and now has, since the
\* registration of an allowRemote listener, a subscriber and a publisher that are
\* two clients, named {clientId}-subscriber and {clientId}.
C30_Witness ==
  /\ listeners["A"]["user"] = <<2, 1>>
  /\ \E w \in DOMAIN tasks : tasks[w].sentAt >= 0
  /\ mqttPublisher["A"] # NoClient /\ mqttSubscriber["A"] # NoClient
  /\ mqttPublisher["A"] # mqttSubscriber["A"]
  /\ clients[mqttPublisher["A"]].clientId = <<"api-server-1">>
  /\ clients[mqttSubscriber["A"]].clientId = <<"api-server-1", "-subscriber">>

(* ------------------------------------------------------------------ *)
(* Properties that relate the registry and the subscription table      *)
(* ------------------------------------------------------------------ *)
\* The listener set the table of p holds under key t: {} when it has no entry.
EntrySet(p, t) ==
  IF IsNull(mqttSubscriptions[p][t]) THEN {} ELSE Range(Get(mqttSubscriptions[p][t]))

\* C31: whenever the process has an enabled broker configuration, every listener in
\* its registry that has allowRemote is in the listener set of the topic of its
\* entity type, whether it was registered before or after the configuration.
C31_RemoteListenersSubscribed ==
  \A p \in Procs :
     ConfigEnabled(p) =>
        \A m \in ModelKeys : \A i \in DOMAIN listeners[p][m] :
           CfgDef[listeners[p][m][i]].allowRemote
              => listeners[p][m][i] \in EntrySet(p, SubscribeTopic(Get(mqttConfig[p]), m))

(* ------------------------------------------------------------------ *)
(* Properties of unregistration against a dispatch in flight           *)
(* ------------------------------------------------------------------ *)
\* C32: a listener whose unregister function has returned is not invoked again: every
\* callback a step starts is of a config that is in the registry of its process,
\* under the entity type of the dispatch, when the step begins, also when the
\* dispatch was suspended in an earlier callback at the time of the unregistration.
C32_NoCallAfterUnregister ==
  [][\A k \in (DOMAIN calls') \ (DOMAIN calls) :
       calls'[k].cfg \in Range(listeners[calls'[k].proc][tasks'[calls'[k].w].key])]_vars

(* ------------------------------------------------------------------ *)
(* Properties of the promise of runListeners                           *)
(* ------------------------------------------------------------------ *)
\* C33: the promise runListeners returns never rejects, whatever the registered
\* configs and the args: no emission ends as a rejected promise.
C33_RunListenersNeverRejects ==
  \A w \in DOMAIN tasks : tasks[w].pc # "rejected"

(* ------------------------------------------------------------------ *)
(* Properties of the interceptor                                       *)
(* ------------------------------------------------------------------ *)
\* C34: a write whose query throws emits nothing: no listener is invoked for it,
\* nothing is published for it, its runListeners is never called, and its caller
\* gets the query's error.
C34_FailedWriteEmitsNothing ==
  \A w \in DOMAIN writes :
     ~writes[w].queryOk =>
        /\ CallsFor(writes[w].proc, w) = {}
        /\ tasks[w] = NoTask
        /\ \A m \in publishes : m.w # w
        /\ writes[w].outcome = "thrown"

\* A write with emit: true on an operation the extension emits for failed in its
\* query while a listener that matches its args was registered.
C34_Witness ==
  \E w \in DOMAIN writes :
     /\ ~writes[w].queryOk
     /\ writes[w].emit = EmitArgBool(TRUE)
     /\ writes[w].enabled
     /\ \E i \in DOMAIN listeners[writes[w].proc]["user"] :
           Eligible(listeners[writes[w].proc]["user"][i], writes[w].args)
     /\ writes[w].outcome = "thrown"

\* C35: a write whose args have no emit key invokes no listener and publishes nothing,
\* whatever the emit options of the extension: its runListeners is never called.
C35_NoEmitKeyNoEmission ==
  \A w \in DOMAIN writes :
     writes[w].emit.kind = "absent" =>
        /\ tasks[w] = NoTask
        /\ CallsFor(writes[w].proc, w) = {}
        /\ \A m \in publishes : m.w # w

\* A write without an emit key succeeded on an operation the extension's options
\* switch on, while a listener that matches its args was registered.
C35_Witness ==
  \E w \in DOMAIN writes :
     /\ writes[w].emit.kind = "absent"
     /\ writes[w].enabled
     /\ writes[w].queryOk
     /\ \E i \in DOMAIN listeners[writes[w].proc]["user"] :
           Eligible(listeners[writes[w].proc]["user"][i], writes[w].args)

OpenClients(p, role) ==
  {i \in ClientIds : /\ clients[i].owner = p /\ clients[i].role = role
                     /\ clients[i].state \in {"connecting", "connected"}}

\* C37: a process has at most one open publisher connection and at most one open
\* subscriber connection at any time, and every open connection is the one its
\* handle (mqttPublisher, mqttSubscriber) refers to, so that disconnect will end it.
C37_OneConnectionPerRole ==
  \A p \in Procs :
     /\ Cardinality(OpenClients(p, "publisher")) <= 1
     /\ Cardinality(OpenClients(p, "subscriber")) <= 1
     /\ \A i \in OpenClients(p, "publisher") : mqttPublisher[p] = i
     /\ \A i \in OpenClients(p, "subscriber") : mqttSubscriber[p] = i

(* ------------------------------------------------------------------ *)
(* Properties of the subscription table against the registry           *)
(* ------------------------------------------------------------------ *)
\* The entity type of a table key `${topicPrefix}/${model}/#`.
ModelOfKey(t) == t[Len(t) - 1]

\* C38: every config in the listener set of a table entry is at that moment in the
\* registry of the process under the entity type of the entry: the table holds no
\* config that has been unregistered.
C38_NoDanglingConfig ==
  \A p \in Procs : \A t \in SubTopics : \A c \in EntrySet(p, t) :
     \E j \in DOMAIN listeners[p][ModelOfKey(t)] : listeners[p][ModelOfKey(t)][j] = c

(* ------------------------------------------------------------------ *)
(* Properties of disconnect against the registry                       *)
(* ------------------------------------------------------------------ *)
\* Every disconnect called so far has resolved.
Disconnected ==
  disconnects # <<>> /\ \A k \in DOMAIN disconnects : disconnects[k].resolved

====
